---------------------------- MODULE Spec2Model ----------------------------
(***************************************************************************)
(* A model of the semantic pipeline of Lambda-Calculus-with-Traits:        *)
(* desugar (src/src/trait.py), type resolver (src/src/type_solver.py),     *)
(* type checker (src/src/type_checker.py), dispatch                        *)
(* (src/src/dispatcher.py) and evaluator (src/src/interpreter.py), run in  *)
(* that order by src/main.py.  The files main.py and the passes write      *)
(* (print_program, _log) are not modelled.                                 *)
(*                                                                         *)
(* AST nodes are records tagged by the field k, which holds the name of    *)
(* the node's Python class; the other fields carry the names of the        *)
(* dataclass fields.  A Python dict (RecordType.fields, RecordExpr.fields) *)
(* is a sequence of [label, v] entries in insertion order.  The line       *)
(* number of a node is not modelled.                                       *)
(*                                                                         *)
(* The files of src/ disagree in places on the signature of a constructor  *)
(* or method (ForAllType(param, body) written without trait_bounds,        *)
(* Env.set(name=, value=), NamedExpr(.., is_builtin=True),                 *)
(* InterpreterVisitor._error(node, msg), ListType.element_type).  Each     *)
(* call is modelled by the arguments it passes: a ForAllType built without *)
(* trait_bounds has the empty list of bounds, _error(node, msg) raises the *)
(* runtime error msg.                                                      *)
(***************************************************************************)
EXTENDS Integers, Sequences, FiniteSets, TLC

VARIABLES
    pc,                     \* position of main.py / of the function under study
    parsed,                 \* main.py: the tree returned by parse(code)
    tree,                   \* main.py: tree (the input, then each pass's result)
    result,                 \* the value returned by the last visitor call
    solver_temp_name_idx,   \* type_solver.py: _temp_name_idx
    checker_temp_name_idx,  \* type_checker.py: _temp_name_idx
    interp_temp_name_idx    \* interpreter.py: _temp_name_idx

vars == <<pc, parsed, tree, result, solver_temp_name_idx, checker_temp_name_idx,
          interp_temp_name_idx>>

\* Largest value a fresh-name counter has when a function under study starts.
MaxIdx == 1

None == [k |-> "None"]

(***************************************************************************)
(* Types (src/src/parser.py)                                               *)
(***************************************************************************)
NamedType(name) == [k |-> "NamedType", name |-> name]

ArrowType(left, right) == [k |-> "ArrowType", left |-> left, right |-> right]

AppType(func, arg) == [k |-> "AppType", func |-> func, arg |-> arg]

ListType(elem_type) == [k |-> "ListType", elem_type |-> elem_type]

RecordType(fields) == [k |-> "RecordType", fields |-> fields]

ForAllType(param_name, body, trait_bounds) ==
    [k |-> "ForAllType", param_name |-> param_name, body |-> body,
     trait_bounds |-> trait_bounds]

Entry(label, v) == [label |-> label, v |-> v]

BoolType == NamedType("Bool")

IntType == NamedType("Int")

StringType == NamedType("String")

TypeType == [k |-> "*"]

is_built_in_type(type) == type.name \in {"Bool", "Int", "String"}

\* f"{name}${_temp_name_idx}"
TempName(name, idx) == name \o "$" \o ToString(idx)

(***************************************************************************)
(* Free type variables: _FreeVarVisitor of type_solver.py and of           *)
(* type_checker.py (the two classes are the same text).  bound is the      *)
(* stack bound_var_names, read only by membership.                         *)
(***************************************************************************)
RECURSIVE TypeFreeVarsIn(_, _)
TypeFreeVarsIn(node, bound) ==
    IF node.k = "ForAllType" THEN
        TypeFreeVarsIn(node.body, bound \cup {node.param_name})
    ELSE IF node.k = "NamedType" THEN
        IF node.name \notin bound THEN {node.name} ELSE {}
    ELSE IF node.k = "ArrowType" THEN
        TypeFreeVarsIn(node.left, bound) \cup TypeFreeVarsIn(node.right, bound)
    ELSE IF node.k = "AppType" THEN
        TypeFreeVarsIn(node.func, bound) \cup TypeFreeVarsIn(node.arg, bound)
    ELSE IF node.k = "ListType" THEN
        TypeFreeVarsIn(node.elem_type, bound)
    ELSE IF node.k = "RecordType" THEN
        UNION {TypeFreeVarsIn(node.fields[i].v, bound) : i \in DOMAIN node.fields}
    ELSE {}

TypeFreeVars(node) == TypeFreeVarsIn(node, {})

(***************************************************************************)
(* TypeSubstitutionVisitor (type_solver.py).  The result is [t, idx]: the  *)
(* new type and the value of _temp_name_idx after the call.                *)
(***************************************************************************)
RECURSIVE SolverSubstNoRename(_, _, _, _)
RECURSIVE SolverSubstNoRenameFields(_, _, _, _, _)
\* The substitution without the renaming case (the third case missing).
SolverSubstNoRename(node, old, new, idx) ==
    IF node.k = "ForAllType" THEN
        IF node.param_name = old THEN [t |-> node, idx |-> idx]
        ELSE LET r == SolverSubstNoRename(node.body, old, new, idx)
             IN  [t |-> [node EXCEPT !.body = r.t], idx |-> r.idx]
    ELSE IF node.k = "NamedType" THEN
        [t |-> IF node.name = old THEN new ELSE node, idx |-> idx]
    ELSE IF node.k = "ArrowType" THEN
        LET l == SolverSubstNoRename(node.left, old, new, idx)
            r == SolverSubstNoRename(node.right, old, new, l.idx)
        IN  [t |-> ArrowType(l.t, r.t), idx |-> r.idx]
    ELSE IF node.k = "AppType" THEN
        LET f == SolverSubstNoRename(node.func, old, new, idx)
            a == SolverSubstNoRename(node.arg, old, new, f.idx)
        IN  [t |-> AppType(f.t, a.t), idx |-> a.idx]
    ELSE IF node.k = "ListType" THEN
        LET e == SolverSubstNoRename(node.elem_type, old, new, idx)
        IN  [t |-> ListType(e.t), idx |-> e.idx]
    ELSE IF node.k = "RecordType" THEN
        LET fs == SolverSubstNoRenameFields(node.fields, 1, old, new, idx)
        IN  [t |-> RecordType(fs.t), idx |-> fs.idx]
    ELSE [t |-> node, idx |-> idx]

SolverSubstNoRenameFields(fields, i, old, new, idx) ==
    IF i > Len(fields) THEN [t |-> <<>>, idx |-> idx]
    ELSE LET h == SolverSubstNoRename(fields[i].v, old, new, idx)
             r == SolverSubstNoRenameFields(fields, i + 1, old, new, h.idx)
         IN  [t |-> <<Entry(fields[i].label, h.t)>> \o r.t, idx |-> r.idx]

RECURSIVE SolverSubst(_, _, _, _)
RECURSIVE SolverSubstFields(_, _, _, _, _)
SolverSubst(node, old, new, idx) ==
    IF node.k = "ForAllType" THEN
        IF node.param_name = old THEN [t |-> node, idx |-> idx]
        ELSE IF node.param_name \notin TypeFreeVars(new) THEN
            LET r == SolverSubst(node.body, old, new, idx)
            IN  [t |-> [node EXCEPT !.body = r.t], idx |-> r.idx]
        ELSE
            LET temp_name == TempName(node.param_name, idx + 1)
                r1 == SolverSubst(node.body, node.param_name,
                                  NamedType(temp_name), idx + 1)
                r2 == SolverSubst(r1.t, old, new, r1.idx)
            IN  [t |-> [node EXCEPT !.param_name = temp_name, !.body = r2.t],
                 idx |-> r2.idx]
    ELSE IF node.k = "NamedType" THEN
        [t |-> IF node.name = old THEN new ELSE node, idx |-> idx]
    ELSE IF node.k = "ArrowType" THEN
        LET l == SolverSubst(node.left, old, new, idx)
            r == SolverSubst(node.right, old, new, l.idx)
        IN  [t |-> ArrowType(l.t, r.t), idx |-> r.idx]
    ELSE IF node.k = "AppType" THEN
        LET f == SolverSubst(node.func, old, new, idx)
            a == SolverSubst(node.arg, old, new, f.idx)
        IN  [t |-> AppType(f.t, a.t), idx |-> a.idx]
    ELSE IF node.k = "ListType" THEN
        LET e == SolverSubst(node.elem_type, old, new, idx)
        IN  [t |-> ListType(e.t), idx |-> e.idx]
    ELSE IF node.k = "RecordType" THEN
        LET fs == SolverSubstFields(node.fields, 1, old, new, idx)
        IN  [t |-> RecordType(fs.t), idx |-> fs.idx]
    ELSE [t |-> node, idx |-> idx]

SolverSubstFields(fields, i, old, new, idx) ==
    IF i > Len(fields) THEN [t |-> <<>>, idx |-> idx]
    ELSE LET h == SolverSubst(fields[i].v, old, new, idx)
             r == SolverSubstFields(fields, i + 1, old, new, h.idx)
         IN  [t |-> <<Entry(fields[i].label, h.t)>> \o r.t, idx |-> r.idx]

(***************************************************************************)
(* _TypeSubstitutionVisitor (type_checker.py): the same rules, but a       *)
(* ForAllType it rebuilds is built from (param_name, body) alone.          *)
(***************************************************************************)
RECURSIVE CheckerSubst(_, _, _, _)
RECURSIVE CheckerSubstFields(_, _, _, _, _)
CheckerSubst(node, old, new, idx) ==
    IF node.k = "ForAllType" THEN
        IF node.param_name = old THEN [t |-> node, idx |-> idx]
        ELSE IF node.param_name \notin TypeFreeVars(new) THEN
            LET r == CheckerSubst(node.body, old, new, idx)
            IN  [t |-> ForAllType(node.param_name, r.t, <<>>), idx |-> r.idx]
        ELSE
            LET temp_name == TempName(node.param_name, idx + 1)
                r1 == CheckerSubst(node.body, node.param_name,
                                   NamedType(temp_name), idx + 1)
                r2 == CheckerSubst(r1.t, old, new, r1.idx)
            IN  [t |-> ForAllType(temp_name, r2.t, <<>>), idx |-> r2.idx]
    ELSE IF node.k = "NamedType" THEN
        [t |-> IF node.name = old THEN new ELSE node, idx |-> idx]
    ELSE IF node.k = "ArrowType" THEN
        LET l == CheckerSubst(node.left, old, new, idx)
            r == CheckerSubst(node.right, old, new, l.idx)
        IN  [t |-> ArrowType(l.t, r.t), idx |-> r.idx]
    ELSE IF node.k = "AppType" THEN
        LET f == CheckerSubst(node.func, old, new, idx)
            a == CheckerSubst(node.arg, old, new, f.idx)
        IN  [t |-> AppType(f.t, a.t), idx |-> a.idx]
    ELSE IF node.k = "ListType" THEN
        LET e == CheckerSubst(node.elem_type, old, new, idx)
        IN  [t |-> ListType(e.t), idx |-> e.idx]
    ELSE IF node.k = "RecordType" THEN
        LET fs == CheckerSubstFields(node.fields, 1, old, new, idx)
        IN  [t |-> RecordType(fs.t), idx |-> fs.idx]
    ELSE [t |-> node, idx |-> idx]

CheckerSubstFields(fields, i, old, new, idx) ==
    IF i > Len(fields) THEN [t |-> <<>>, idx |-> idx]
    ELSE LET h == CheckerSubst(fields[i].v, old, new, idx)
             r == CheckerSubstFields(fields, i + 1, old, new, h.idx)
         IN  [t |-> <<Entry(fields[i].label, h.t)>> \o r.t, idx |-> r.idx]

(***************************************************************************)
(* Inputs of the type substitution: the type B substituted into, the       *)
(* variable a and the type T.  A type argument is resolved before it is    *)
(* substituted, so its free names are names of the source program (no $);  *)
(* the type substituted into may hold a binder renamed earlier.            *)
(***************************************************************************)
TVarNames == {"a", "b"}

SubstAtoms == {NamedType(n) : n \in TVarNames \cup {"Int"}}

SubstNewTypes ==
    SubstAtoms
    \cup {ArrowType(l, r) : l \in SubstAtoms, r \in SubstAtoms}
    \cup {ListType(NamedType(n)) : n \in TVarNames}
    \cup {ForAllType(p, NamedType(n), <<>>) : p \in TVarNames, n \in TVarNames}

SubstBinders == TVarNames \cup {TempName("a", 1)}

SubstBodyAtoms == {NamedType(n) : n \in SubstBinders \cup {"Int"}}

SubstBody1 ==
    SubstBodyAtoms
    \cup {ArrowType(l, r) : l \in SubstBodyAtoms, r \in SubstBodyAtoms}
    \cup {ListType(NamedType("a")), AppType(NamedType("b"), NamedType("a")),
          RecordType(<<Entry("f", NamedType("a")), Entry("g", NamedType("b"))>>)}

SubstBody2 ==
    SubstBody1
    \cup {ForAllType(p, t, bs) : p \in SubstBinders, t \in SubstBody1,
                                 bs \in {<<>>, <<"Show">>}}

SubstBodies ==
    SubstBody2
    \cup {ForAllType(p, t, <<>>) : p \in SubstBinders,
                                   t \in SubstBody2 \ SubstBody1}
    \cup {ArrowType(NamedType(n), t) : n \in TVarNames,
                                       t \in SubstBody2 \ SubstBody1}

InitTypeSubst ==
    /\ pc = "type_subst"
    /\ parsed = None
    /\ tree \in [body : SubstBodies, old : TVarNames, new : SubstNewTypes]
    /\ result = None
    /\ solver_temp_name_idx \in 0..MaxIdx
    /\ checker_temp_name_idx \in 0..MaxIdx
    /\ interp_temp_name_idx = 0

\* TypeSubstitutionVisitor(old, new).visit(body), as visit_AppType calls it
SolverTypeSubst ==
    /\ pc = "type_subst"
    /\ LET r == SolverSubst(tree.body, tree.old, tree.new, solver_temp_name_idx)
       IN  /\ result' = r.t
           /\ solver_temp_name_idx' = r.idx
    /\ pc' = "solver_subst_done"
    /\ UNCHANGED <<parsed, tree, checker_temp_name_idx, interp_temp_name_idx>>

\* _TypeSubstitutionVisitor(old, new).visit(body), as visit_TypeAppExpr calls it
CheckerTypeSubst ==
    /\ pc = "type_subst"
    /\ LET r == CheckerSubst(tree.body, tree.old, tree.new, checker_temp_name_idx)
       IN  /\ result' = r.t
           /\ checker_temp_name_idx' = r.idx
    /\ pc' = "checker_subst_done"
    /\ UNCHANGED <<parsed, tree, solver_temp_name_idx, interp_temp_name_idx>>

NextTypeSubst == SolverTypeSubst \/ CheckerTypeSubst

SpecTypeSubst == InitTypeSubst /\ [][NextTypeSubst]_vars

(***************************************************************************)
(* Capture check.  B is the type substituted into and R the result; the    *)
(* two are walked together.  A free occurrence of a in B is a place where  *)
(* T was put; bound holds the binders of R above that place.               *)
(***************************************************************************)
RECURSIVE TypeNoCapture(_, _, _, _, _)
TypeNoCapture(B, R, a, T, bound) ==
    IF B.k = "NamedType" THEN
        IF B.name = a THEN R = T /\ TypeFreeVars(T) \cap bound = {}
        ELSE R.k = "NamedType"
    ELSE IF R.k # B.k THEN FALSE
    ELSE IF B.k = "ForAllType" THEN
        \/ B.param_name = a
        \/ /\ B.param_name \in TypeFreeVars(T) => R.param_name # B.param_name
           /\ TypeNoCapture(B.body, R.body, a, T, bound \cup {R.param_name})
    ELSE IF B.k = "ArrowType" THEN
        /\ TypeNoCapture(B.left, R.left, a, T, bound)
        /\ TypeNoCapture(B.right, R.right, a, T, bound)
    ELSE IF B.k = "AppType" THEN
        /\ TypeNoCapture(B.func, R.func, a, T, bound)
        /\ TypeNoCapture(B.arg, R.arg, a, T, bound)
    ELSE IF B.k = "ListType" THEN
        TypeNoCapture(B.elem_type, R.elem_type, a, T, bound)
    ELSE IF B.k = "RecordType" THEN
        /\ Len(R.fields) = Len(B.fields)
        /\ \A i \in DOMAIN B.fields :
              TypeNoCapture(B.fields[i].v, R.fields[i].v, a, T, bound)
    ELSE R = B

\* Some ForAll of B that the substitution reaches binds a free variable of T.
RECURSIVE TypeHasClash(_, _, _)
TypeHasClash(B, a, T) ==
    IF B.k = "ForAllType" THEN
        /\ B.param_name # a
        /\ \/ B.param_name \in TypeFreeVars(T)
           \/ TypeHasClash(B.body, a, T)
    ELSE IF B.k = "ArrowType" THEN
        TypeHasClash(B.left, a, T) \/ TypeHasClash(B.right, a, T)
    ELSE FALSE

NamedExpr(name) == [k |-> "NamedExpr", name |-> name, is_builtin |-> FALSE]

ValueExpr(py, v) == [k |-> "ValueExpr", value |-> [py |-> py, v |-> v]]

LambdaExpr(param_name, param_type, body) ==
    [k |-> "LambdaExpr", param_name |-> param_name, param_type |-> param_type,
     body |-> body]

TypeLambdaExpr(param_name, body, trait_bounds) ==
    [k |-> "TypeLambdaExpr", param_name |-> param_name, body |-> body,
     trait_bounds |-> trait_bounds]

AppExpr(func, arg) == [k |-> "AppExpr", func |-> func, arg |-> arg]

TypeAppExpr(func, type_arg) ==
    [k |-> "TypeAppExpr", func |-> func, type_arg |-> type_arg]

TypeAnnotatedExpr(expr, type) ==
    [k |-> "TypeAnnotatedExpr", expr |-> expr, type |-> type]

FieldAccessExpr(record, field_name) ==
    [k |-> "FieldAccessExpr", record |-> record, field_name |-> field_name]

BinExpr(k, left, op, right) == [k |-> k, left |-> left, op |-> op, right |-> right]

AddExpr(left, op, right) == BinExpr("AddExpr", left, op, right)

ListExpr(elements) == [k |-> "ListExpr", elements |-> elements]

RecordExpr(fields) == [k |-> "RecordExpr", fields |-> fields]

IfExpr(condition, then_expr, else_expr) ==
    [k |-> "IfExpr", condition |-> condition, then_expr |-> then_expr,
     else_expr |-> else_expr]

TypeKinds == {"NamedType", "ArrowType", "AppType", "ListType", "RecordType",
              "ForAllType"}

\* The fields of a node that hold one child node each, in dataclass order
\* (iter_fields); a field holding a list or a dict is not among them.
NodeFields(k) ==
    CASE k = "LambdaExpr" -> <<"param_type", "body">>
      [] k \in {"TypeLambdaExpr", "ForAllType"} -> <<"body">>
      [] k = "IfExpr" -> <<"condition", "then_expr", "else_expr">>
      [] k \in {"LogicOrExpr", "LogicAndExpr", "RelExpr", "AddExpr", "MulExpr",
                "ArrowType"} -> <<"left", "right">>
      [] k \in {"LogicNotExpr", "NegExpr", "AssignStmt", "ExprStmt"} -> <<"expr">>
      [] k = "AppExpr" -> <<"func", "arg">>
      [] k = "AppType" -> <<"func", "arg">>
      [] k = "TypeAppExpr" -> <<"func", "type_arg">>
      [] k = "TypeAnnotatedExpr" -> <<"expr", "type">>
      [] k = "FieldAccessExpr" -> <<"record">>
      [] k = "ListType" -> <<"elem_type">>
      [] k \in {"TypeAssignStmt", "TraitFieldEnvStmt", "TypeBindItem"} -> <<"type">>
      [] k = "InstanceEnvStmt" -> <<"type_param", "inst_expr">>
      [] k = "ImplStmt" -> <<"type_param">>
      [] k = "AssignItem" -> <<"value">>
      [] OTHER -> <<>>

(***************************************************************************)
(* _FreeVarVisitor of interpreter.py: the class handles ForAllType and     *)
(* NamedType, and reaches every other node through                         *)
(* NodeVisitor.generic_visit, which collects nothing at a NamedExpr and    *)
(* binds nothing at a LambdaExpr.                                          *)
(***************************************************************************)
RECURSIVE InterpFreeVarsIn(_, _)
InterpFreeVarsIn(node, bound) ==
    IF node.k = "None" THEN {}
    ELSE IF node.k = "ForAllType" THEN
        InterpFreeVarsIn(node.body, bound \cup {node.param_name})
    ELSE IF node.k = "NamedType" THEN
        IF node.name \notin bound THEN {node.name} ELSE {}
    ELSE IF node.k = "ListExpr" THEN
        UNION {InterpFreeVarsIn(node.elements[i], bound) : i \in DOMAIN node.elements}
    ELSE IF node.k \in {"RecordExpr", "RecordType"} THEN
        UNION {InterpFreeVarsIn(node.fields[i].v, bound) : i \in DOMAIN node.fields}
    ELSE UNION {InterpFreeVarsIn(node[NodeFields(node.k)[i]], bound) :
                    i \in DOMAIN NodeFields(node.k)}

InterpFreeVars(node) == InterpFreeVarsIn(node, {})

(***************************************************************************)
(* The free term variables of a term, by the textbook definition: what     *)
(* FV(N) of the substitution rules of _TermSubstitutionVisitor stands for. *)
(***************************************************************************)
RECURSIVE ExprFreeVars(_)
ExprFreeVars(node) ==
    IF node.k = "None" \/ node.k \in TypeKinds THEN {}
    ELSE IF node.k = "NamedExpr" THEN {node.name}
    ELSE IF node.k = "LambdaExpr" THEN ExprFreeVars(node.body) \ {node.param_name}
    ELSE IF node.k = "ListExpr" THEN
        UNION {ExprFreeVars(node.elements[i]) : i \in DOMAIN node.elements}
    ELSE IF node.k = "RecordExpr" THEN
        UNION {ExprFreeVars(node.fields[i].v) : i \in DOMAIN node.fields}
    ELSE UNION {ExprFreeVars(node[NodeFields(node.k)[i]]) :
                    i \in DOMAIN NodeFields(node.k)}

(***************************************************************************)
(* _TermSubstitutionVisitor (interpreter.py).  Nodes without a visit_      *)
(* method are rebuilt by TransformVisitor.generic_visit; the types inside  *)
(* a term have none and come back equal, so they are not descended into.   *)
(***************************************************************************)
RECURSIVE TermSubst(_, _, _, _)
RECURSIVE TermSubstFrom(_, _, _, _, _)
RECURSIVE TermSubstItems(_, _, _, _, _)
TermSubst(node, old, new, idx) ==
    IF node.k = "None" \/ node.k \in TypeKinds THEN [t |-> node, idx |-> idx]
    ELSE IF node.k = "LambdaExpr" THEN
        IF node.param_name = old THEN [t |-> node, idx |-> idx]
        ELSE IF node.param_name \notin InterpFreeVars(new) THEN
            LET r == TermSubst(node.body, old, new, idx)
            IN  [t |-> LambdaExpr(node.param_name, None, r.t), idx |-> r.idx]
        ELSE
            LET temp_name == TempName(node.param_name, idx + 1)
                r1 == TermSubst(node.body, node.param_name,
                                NamedExpr(temp_name), idx + 1)
                r2 == TermSubst(r1.t, old, new, r1.idx)
            IN  [t |-> LambdaExpr(temp_name, None, r2.t), idx |-> r2.idx]
    ELSE IF node.k = "NamedExpr" THEN
        [t |-> IF node.name = old THEN new ELSE node, idx |-> idx]
    ELSE IF node.k = "ListExpr" THEN
        LET r == TermSubstItems(node.elements, 1, old, new, idx)
        IN  [t |-> [node EXCEPT !.elements = r.t], idx |-> r.idx]
    ELSE IF node.k = "RecordExpr" THEN
        LET r == TermSubstItems([i \in DOMAIN node.fields |-> node.fields[i].v],
                                1, old, new, idx)
        IN  [t |-> [node EXCEPT !.fields =
                       [i \in DOMAIN node.fields |->
                           Entry(node.fields[i].label, r.t[i])]],
             idx |-> r.idx]
    ELSE TermSubstFrom(node, 1, old, new, idx)

\* generic_visit: the child fields of node from the i-th on, in order
TermSubstFrom(node, i, old, new, idx) ==
    IF i > Len(NodeFields(node.k)) THEN [t |-> node, idx |-> idx]
    ELSE LET f == NodeFields(node.k)[i]
             r == TermSubst(node[f], old, new, idx)
         IN  TermSubstFrom([node EXCEPT ![f] = r.t], i + 1, old, new, r.idx)

\* generic_visit: the items of a list (or the values of a dict), in order
TermSubstItems(items, i, old, new, idx) ==
    IF i > Len(items) THEN [t |-> <<>>, idx |-> idx]
    ELSE LET h == TermSubst(items[i], old, new, idx)
             r == TermSubstItems(items, i + 1, old, new, h.idx)
         IN  [t |-> <<h.t>> \o r.t, idx |-> r.idx]

(***************************************************************************)
(* Inputs of the term substitution E[x := N] of visit_AppExpr: E is the    *)
(* body of the applied lambda, N the evaluated argument.  An evaluated     *)
(* argument is a literal or a lambda whose body may name a top-level       *)
(* global (here g or y) and its own parameter.                             *)
(***************************************************************************)
TermNames == {"x", "y", "g"}

TermArgBodies ==
    {NamedExpr(n) : n \in {"z", "y", "g"}}
    \cup {AddExpr(NamedExpr(n), "+", NamedExpr("z")) : n \in {"y", "g"}}
    \cup {AppExpr(NamedExpr("g"), NamedExpr("z")),
          TypeAppExpr(NamedExpr("g"), NamedType("y")),
          TypeAppExpr(NamedExpr("g"), IntType)}

TermArgs ==
    {ValueExpr("int", 1)} \cup {LambdaExpr("z", None, b) : b \in TermArgBodies}

TermBodyAtoms ==
    {NamedExpr(n) : n \in TermNames} \cup {ValueExpr("int", 2)}

TermBody1 ==
    TermBodyAtoms
    \cup {AppExpr(f, a) : f \in TermBodyAtoms, a \in TermBodyAtoms}
    \cup {AddExpr(NamedExpr("x"), "+", NamedExpr(n)) : n \in TermNames}
    \cup {ListExpr(<<NamedExpr("x"), NamedExpr("y")>>),
          RecordExpr(<<Entry("f", NamedExpr("x")), Entry("h", NamedExpr("g"))>>),
          IfExpr(ValueExpr("bool", TRUE), NamedExpr("x"), NamedExpr("g"))}

TermBody2 ==
    TermBody1
    \cup {LambdaExpr(p, ty, b) : p \in TermNames, ty \in {IntType, None},
                                 b \in TermBody1}

TermBodies ==
    TermBody2
    \cup {LambdaExpr(p, IntType, b) : p \in TermNames, b \in TermBody2 \ TermBody1}

InitTermSubst ==
    /\ pc = "term_subst"
    /\ parsed = None
    /\ tree \in [body : TermBodies, old : TermNames, new : TermArgs]
    /\ result = None
    /\ solver_temp_name_idx = 0
    /\ checker_temp_name_idx = 0
    /\ interp_temp_name_idx \in 0..MaxIdx

\* _TermSubstitutionVisitor(old, new).visit(func_eval.body) of visit_AppExpr
InterpTermSubst ==
    /\ pc = "term_subst"
    /\ LET r == TermSubst(tree.body, tree.old, tree.new, interp_temp_name_idx)
       IN  /\ result' = r.t
           /\ interp_temp_name_idx' = r.idx
    /\ pc' = "term_subst_done"
    /\ UNCHANGED <<parsed, tree, solver_temp_name_idx, checker_temp_name_idx>>

SpecTermSubst == InitTermSubst /\ [][InterpTermSubst]_vars

\* E and the result R walked together, as TypeNoCapture does for types.
RECURSIVE ExprNoCapture(_, _, _, _, _)
ExprNoCapture(E, R, x, N, bound) ==
    IF E.k = "None" \/ E.k \in TypeKinds THEN TRUE
    ELSE IF E.k = "NamedExpr" THEN
        IF E.name = x THEN R = N /\ ExprFreeVars(N) \cap bound = {}
        ELSE R.k = "NamedExpr"
    ELSE IF R.k # E.k THEN FALSE
    ELSE IF E.k = "LambdaExpr" THEN
        \/ E.param_name = x
        \/ /\ E.param_name \in ExprFreeVars(N) => R.param_name # E.param_name
           /\ ExprNoCapture(E.body, R.body, x, N, bound \cup {R.param_name})
    ELSE IF E.k = "ListExpr" THEN
        /\ Len(R.elements) = Len(E.elements)
        /\ \A i \in DOMAIN E.elements :
              ExprNoCapture(E.elements[i], R.elements[i], x, N, bound)
    ELSE IF E.k = "RecordExpr" THEN
        /\ Len(R.fields) = Len(E.fields)
        /\ \A i \in DOMAIN E.fields :
              ExprNoCapture(E.fields[i].v, R.fields[i].v, x, N, bound)
    ELSE \A i \in DOMAIN NodeFields(E.k) :
            ExprNoCapture(E[NodeFields(E.k)[i]], R[NodeFields(E.k)[i]], x, N, bound)

\* C2: in E[x := N] computed for App(Lambda(x, E), N), every Lambda of E
\* whose parameter y (y # x) is a free term variable of N is renamed, and no
\* free variable occurrence of N is bound by a Lambda of the result.
C2_TermSubstCaptureAvoiding ==
    pc = "term_subst_done" =>
        ExprNoCapture(tree.body, result, tree.old, tree.new, {})


(***************************************************************************)
(* Statements (src/src/parser.py).  A Python list that a visitor returns   *)
(* in place of a node is the value PyList(items).                          *)
(***************************************************************************)
Program(statements) == [k |-> "Program", statements |-> statements]

AssignStmt(name, expr) == [k |-> "AssignStmt", name |-> name, expr |-> expr]

TypeAssignStmt(name, type) == [k |-> "TypeAssignStmt", name |-> name, type |-> type]

ExprStmt(expr) == [k |-> "ExprStmt", expr |-> expr]

InstanceEnvStmt(name, type_param, inst_expr) ==
    [k |-> "InstanceEnvStmt", name |-> name, type_param |-> type_param,
     inst_expr |-> inst_expr]

TraitFieldEnvStmt(field_name, trait_name, type) ==
    [k |-> "TraitFieldEnvStmt", field_name |-> field_name,
     trait_name |-> trait_name, type |-> type]

TraitStmt(name, type_params, items) ==
    [k |-> "TraitStmt", name |-> name, type_params |-> type_params, items |-> items]

StructStmt(name, items) == [k |-> "StructStmt", name |-> name, items |-> items]

ImplStmt(name, type_param, items) ==
    [k |-> "ImplStmt", name |-> name, type_param |-> type_param, items |-> items]

TypeBindItem(name, type) == [k |-> "TypeBindItem", name |-> name, type |-> type]

AssignItem(name, value) == [k |-> "AssignItem", name |-> name, value |-> value]

PyList(items) == [k |-> "list", items |-> items]

\* isinstance(x, ASTNode)
IsASTNode(x) == x.k \notin {"list", "None"}

Error(kind, msg) == [k |-> "Error", kind |-> kind, msg |-> msg]

\* d[label] = v on a dict: a label already there keeps its place
DictSet(d, label, v) ==
    IF \E i \in DOMAIN d : d[i].label = label
    THEN [i \in DOMAIN d |-> IF d[i].label = label THEN Entry(label, v) ELSE d[i]]
    ELSE Append(d, Entry(label, v))

DictHas(d, label) == \E i \in DOMAIN d : d[i].label = label

DictGet(d, label) == d[CHOOSE i \in DOMAIN d : d[i].label = label].v

(***************************************************************************)
(* TransformVisitor.generic_visit for a visitor that has no visit_ method  *)
(* below node: every child is visited and the node rebuilt by replace().   *)
(* In a list field an item that is no ASTNode is appended as it is, and a  *)
(* visited item is appended unless it is None.                             *)
(***************************************************************************)
RECURSIVE GenericVisit(_)
RECURSIVE GenericVisitList(_)
GenericVisitList(items) ==
    IF items = <<>> THEN <<>>
    ELSE IF IsASTNode(Head(items))
         THEN LET new_item == GenericVisit(Head(items))
              IN  (IF new_item # None THEN <<new_item>> ELSE <<>>)
                  \o GenericVisitList(Tail(items))
         ELSE <<Head(items)>> \o GenericVisitList(Tail(items))

GenericVisit(node) ==
    [f \in DOMAIN node |->
        IF \E i \in DOMAIN NodeFields(node.k) : NodeFields(node.k)[i] = f THEN
            IF IsASTNode(node[f]) THEN GenericVisit(node[f]) ELSE node[f]
        ELSE IF f \in {"statements", "elements", "items"} THEN
            GenericVisitList(node[f])
        ELSE IF f = "fields" THEN
            [i \in DOMAIN node[f] |->
                Entry(node[f][i].label, GenericVisit(node[f][i].v))]
        ELSE node[f]]

(***************************************************************************)
(* TraitVisitor (src/src/trait.py).  Each visit_ method returns            *)
(* [err, t, inst_idx]: the error raised ("" for none), the value returned  *)
(* and self.inst_idx after the call.  trait.py names the instance          *)
(* statement InstanceStmt; parser.py declares it as InstanceEnvStmt.       *)
(***************************************************************************)
\* record_type.fields[item.name] = item.type, with the duplicate check
RECURSIVE RecordTypeOfItems(_, _)
RecordTypeOfItems(items, fields) ==
    IF items = <<>> THEN [err |-> "", t |-> RecordType(fields)]
    ELSE IF DictHas(fields, Head(items).name)
         THEN [err |-> "Duplicate field name", t |-> None]
         ELSE RecordTypeOfItems(Tail(items),
                                DictSet(fields, Head(items).name, Head(items).type))

visit_TraitStmt(node, inst_idx) ==
    IF Len(node.type_params) # 1
    THEN [err |-> "Trait must have exactly one type parameter", t |-> None,
          inst_idx |-> inst_idx]
    ELSE
    LET record_type == RecordTypeOfItems(node.items, <<>>)
        for_all_type == ForAllType(node.type_params[1], record_type.t, <<>>)
        type_def == TypeAssignStmt(node.name, for_all_type)
        var_def(item) ==
            AssignStmt(item.name,
                TypeLambdaExpr(node.type_params[1],
                    LambdaExpr("__dict",
                        AppType(NamedType(node.name), NamedType(node.type_params[1])),
                        FieldAccessExpr(NamedExpr("__dict"), item.name)),
                    <<node.name>>))
    IN  IF record_type.err # ""
        THEN [err |-> record_type.err, t |-> None, inst_idx |-> inst_idx]
        ELSE [err |-> "",
              t |-> PyList(<<type_def>>
                           \o [i \in DOMAIN node.items |-> var_def(node.items[i])]),
              inst_idx |-> inst_idx]

\* for l_param, l_type in reversed(zip(..)): lambda_expr = LambdaExpr(..)
RECURSIVE StructConstructor(_, _, _)
StructConstructor(items, i, record) ==
    IF i > Len(items) THEN record
    ELSE LambdaExpr("__x" \o ToString(i - 1), items[i].type,
                    StructConstructor(items, i + 1, record))

visit_StructStmt(node, inst_idx) ==
    LET record_type == RecordTypeOfItems(node.items, <<>>)
        type_def == TypeAssignStmt(node.name, record_type.t)
        record == RecordExpr([i \in DOMAIN node.items |->
                     Entry(node.items[i].name, NamedExpr("__x" \o ToString(i - 1)))])
        constructor_def == AssignStmt(node.name, StructConstructor(node.items, 1, record))
    IN  IF record_type.err # ""
        THEN [err |-> record_type.err, t |-> None, inst_idx |-> inst_idx]
        ELSE [err |-> "", t |-> PyList(<<type_def, constructor_def>>),
              inst_idx |-> inst_idx]

\* {item.name: item.value for item in node.items}
RECURSIVE DictOfItems(_, _)
DictOfItems(items, fields) ==
    IF items = <<>> THEN fields
    ELSE DictOfItems(Tail(items), DictSet(fields, Head(items).name, Head(items).value))

\* The class trait.py instantiates as InstanceStmt is declared by no file;
\* it is the statement InstanceEnv(trait, inst-type, inst-expr), the
\* instance table entry.
InstanceStmt(name, type_param, inst_expr) == InstanceEnvStmt(name, type_param, inst_expr)

\* visit_ImplStmt without its return: the statement comes back as it is
visit_ImplStmtKept(node, inst_idx) ==
    [err |-> "", t |-> node, inst_idx |-> inst_idx + 1]

\* visit_ImplStmt without self.inst_idx += 1
visit_ImplStmtSameIndex(node, inst_idx) ==
    LET inst_name == "__" \o node.name \o "_inst_" \o ToString(inst_idx)
    IN  [err |-> "",
         t |-> PyList(<<AssignStmt(inst_name,
                            TypeAnnotatedExpr(RecordExpr(DictOfItems(node.items, <<>>)),
                                AppType(NamedType(node.name), node.type_param))),
                        InstanceStmt(node.name, node.type_param, NamedExpr(inst_name))>>),
         inst_idx |-> inst_idx]

visit_ImplStmt(node, inst_idx) ==
    LET expected_trait_impl_type == AppType(NamedType(node.name), node.type_param)
        dict_inst == RecordExpr(DictOfItems(node.items, <<>>))
        inst_name == "__" \o node.name \o "_inst_" \o ToString(inst_idx)
        var_def == AssignStmt(inst_name,
                       TypeAnnotatedExpr(dict_inst, expected_trait_impl_type))
        inst_decl == InstanceStmt(node.name, node.type_param, NamedExpr(inst_name))
    IN  [err |-> "", t |-> PyList(<<var_def, inst_decl>>), inst_idx |-> inst_idx + 1]

\* TraitVisitor.visit on one statement
TraitVisit(node, inst_idx) ==
    IF node.k = "TraitStmt" THEN visit_TraitStmt(node, inst_idx)
    ELSE IF node.k = "StructStmt" THEN visit_StructStmt(node, inst_idx)
    ELSE IF node.k = "ImplStmt" THEN visit_ImplStmt(node, inst_idx)
    ELSE [err |-> "", t |-> GenericVisit(node), inst_idx |-> inst_idx]

\* generic_visit of the Program without the else of its list branch: a
\* statement that is no ASTNode (a list returned earlier) is lost
RECURSIVE TraitVisitStatementsSkip(_, _)
TraitVisitStatementsSkip(items, inst_idx) ==
    IF items = <<>> THEN [err |-> "", t |-> <<>>, inst_idx |-> inst_idx]
    ELSE IF ~IsASTNode(Head(items)) THEN TraitVisitStatementsSkip(Tail(items), inst_idx)
    ELSE
        LET h == TraitVisit(Head(items), inst_idx)
            r == TraitVisitStatementsSkip(Tail(items), h.inst_idx)
        IN  IF h.err # "" THEN [err |-> h.err, t |-> <<>>, inst_idx |-> h.inst_idx]
            ELSE [r EXCEPT !.t = IF r.err = "" THEN <<h.t>> \o r.t ELSE r.t]

\* generic_visit of the Program: its statements, in order
RECURSIVE TraitVisitStatements(_, _)
TraitVisitStatements(items, inst_idx) ==
    IF items = <<>> THEN [err |-> "", t |-> <<>>, inst_idx |-> inst_idx]
    ELSE IF ~IsASTNode(Head(items)) THEN
        LET r == TraitVisitStatements(Tail(items), inst_idx)
        IN  [r EXCEPT !.t = IF r.err = "" THEN <<Head(items)>> \o r.t ELSE r.t]
    ELSE
        LET h == TraitVisit(Head(items), inst_idx)
            r == TraitVisitStatements(Tail(items), h.inst_idx)
        IN  IF h.err # "" THEN [err |-> h.err, t |-> <<>>, inst_idx |-> h.inst_idx]
            ELSE [r EXCEPT !.t = IF r.err = "" THEN <<h.t>> \o r.t ELSE r.t]

\* trait = TraitVisitor(); tree = trait.visit(tree)
Desugar(program) ==
    LET Visited(r) == [err |-> r.err, t |-> [program EXCEPT !.statements = r.t]]
    IN  Visited(TraitVisitStatements(program.statements, 0))


(***************************************************************************)
(* The desugar pass on bounded programs: sequences of at most MaxStmts     *)
(* statements of a pool that holds each surface form, with and without     *)
(* the errors the pass raises, and statements without surface forms.       *)
(***************************************************************************)
MaxStmts == 3

ShowTrait ==
    TraitStmt("Show", <<"a">>,
              <<TypeBindItem("show", ArrowType(NamedType("a"), StringType))>>)

ShowImplInt ==
    ImplStmt("Show", IntType, <<AssignItem("show", NamedExpr("int_to_string"))>>)

DesugarStmtPool ==
    {ShowTrait, ShowImplInt,
     TraitStmt("Eq", <<"a", "b">>, <<>>),
     TraitStmt("Empty", <<"a">>, <<>>),
     TraitStmt("Dup", <<"a">>, <<TypeBindItem("f", IntType), TypeBindItem("f", BoolType)>>),
     StructStmt("P", <<TypeBindItem("x", IntType), TypeBindItem("y", IntType)>>),
     StructStmt("Q", <<TypeBindItem("x", IntType), TypeBindItem("x", IntType)>>),
     ImplStmt("Show", BoolType,
              <<AssignItem("show", NamedExpr("s")), AssignItem("show", NamedExpr("t"))>>),
     TypeAssignStmt("A", ForAllType("a", ListType(NamedType("a")), <<>>)),
     AssignStmt("id", TypeLambdaExpr("a",
                          LambdaExpr("x", NamedType("a"), NamedExpr("x")), <<"Show">>)),
     AssignStmt("r", RecordExpr(<<Entry("f", ValueExpr("int", 1)),
                                  Entry("g", ListExpr(<<ValueExpr("bool", TRUE)>>))>>)),
     ExprStmt(AppExpr(TypeAppExpr(NamedExpr("id"), IntType), ValueExpr("int", 5))),
     ExprStmt(TypeAnnotatedExpr(
                  IfExpr(ValueExpr("bool", TRUE), NamedExpr("x"), NamedExpr("y")),
                  RecordType(<<Entry("f", IntType)>>)))}

DesugarPrograms ==
    {Program(ss) : ss \in UNION {[1..n -> DesugarStmtPool] : n \in 0..MaxStmts}}

InitDesugar ==
    /\ pc = "desugar"
    /\ parsed \in DesugarPrograms
    /\ tree = parsed
    /\ result = None
    /\ solver_temp_name_idx = 0
    /\ checker_temp_name_idx = 0
    /\ interp_temp_name_idx = 0

\* main.py: trait = TraitVisitor(); tree = trait.visit(tree)
DesugarPass ==
    /\ pc = "desugar"
    /\ \E r \in {Desugar(tree)} :
           IF r.err # ""
           THEN /\ pc' = "error"
                /\ result' = Error("TypeError", r.err)
                /\ tree' = tree
           ELSE /\ pc' = "desugared"
                /\ result' = r.t
                /\ tree' = r.t
    /\ UNCHANGED <<parsed, solver_temp_name_idx, checker_temp_name_idx,
                   interp_temp_name_idx>>

\* a second TraitVisitor().visit on the tree the first one returned
DesugarAgain ==
    /\ pc = "desugared"
    /\ \E r \in {Desugar(tree)} :
           /\ pc' = IF r.err # "" THEN "error_twice" ELSE "desugared_twice"
           /\ result' = IF r.err # "" THEN Error("TypeError", r.err) ELSE r.t
    /\ UNCHANGED <<parsed, tree, solver_temp_name_idx, checker_temp_name_idx,
                   interp_temp_name_idx>>

NextDesugar == DesugarPass \/ DesugarAgain

SpecDesugar == InitDesugar /\ [][NextDesugar]_vars

\* No Trait, Struct or Impl statement in a statement list, at any depth of
\* the lists nested in it.
RECURSIVE NoSurfaceStmt(_)
NoSurfaceStmt(items) ==
    \A i \in DOMAIN items :
        IF items[i].k = "list" THEN NoSurfaceStmt(items[i].items)
        ELSE items[i].k \notin {"TraitStmt", "StructStmt", "ImplStmt"}

\* C8: the statement sequence returned by the desugar pass contains no
\* Trait, Struct or Impl statement, at any position.
C8_NoSurfaceFormsAfterDesugar ==
    pc = "desugared" => NoSurfaceStmt(tree.statements)

C8_Witness ==
    /\ pc = "desugared"
    /\ \E i, j, l \in DOMAIN parsed.statements :
          /\ parsed.statements[i].k = "TraitStmt"
          /\ parsed.statements[j].k = "StructStmt"
          /\ parsed.statements[l].k = "ImplStmt"

\* C9: a tree without Trait, Struct and Impl statements comes back from the
\* desugar pass equal to itself, and desugaring the result of the desugar
\* pass returns that result.
C9_DesugarIdempotent ==
    /\ (pc = "desugared" /\ NoSurfaceStmt(parsed.statements)) => tree = parsed
    /\ pc \in {"desugared_twice", "error_twice"} => result = tree

C9_Witness ==
    /\ pc = "desugared_twice"
    /\ ~NoSurfaceStmt(parsed.statements)
    /\ Len(parsed.statements) = MaxStmts
    /\ \E i \in DOMAIN parsed.statements : parsed.statements[i].k = "ExprStmt"

C9_WitnessClean ==
    /\ pc = "desugared"
    /\ NoSurfaceStmt(parsed.statements)
    /\ Len(parsed.statements) = MaxStmts



(***************************************************************************)
(* TypeSolverVisitor (src/src/type_solver.py).  SolverVisit returns        *)
(* [err, t, idx]: the error raised ("" for none), the node returned and    *)
(* _temp_name_idx after the call.  bounded is self.bounded_var_names at    *)
(* the call (each visit_ pops what it pushed) and dict is                  *)
(* self.global_var_dict, which only visit_TypeAssignStmt writes.           *)
(***************************************************************************)
RECURSIVE SolverVisit(_, _, _, _)
RECURSIVE SolverVisitFrom(_, _, _, _, _)
RECURSIVE SolverVisitItems(_, _, _, _, _)
SolverVisit(node, bounded, dict, idx) ==
    IF node.k \in {"LambdaExpr", "TypeLambdaExpr", "ForAllType"} THEN
        \* visit_LambdaExpr appends param_name before it visits param_type
        SolverVisitFrom(node, 1, bounded \o <<node.param_name>>, dict, idx)
    ELSE IF node.k = "AppType" THEN
        LET func_type == SolverVisit(node.func, bounded, dict, idx)
            type_arg == SolverVisit(node.arg, bounded, dict, func_type.idx)
        IN  IF func_type.err # "" THEN func_type
            ELSE IF type_arg.err # "" THEN type_arg
            ELSE IF func_type.t.k # "ForAllType" THEN
                [err |-> "For all type expected", t |-> None, idx |-> type_arg.idx]
            ELSE
                LET app_result == SolverSubst(func_type.t.body,
                                              func_type.t.param_name,
                                              type_arg.t, type_arg.idx)
                IN  [err |-> "", t |-> app_result.t, idx |-> app_result.idx]
    ELSE IF node.k = "NamedType" THEN
        IF is_built_in_type(node) THEN [err |-> "", t |-> node, idx |-> idx]
        ELSE IF \E i \in DOMAIN bounded : bounded[i] = node.name THEN
            [err |-> "", t |-> node, idx |-> idx]
        ELSE IF DictHas(dict, node.name) THEN
            [err |-> "", t |-> DictGet(dict, node.name), idx |-> idx]
        ELSE [err |-> "Unknown type", t |-> None, idx |-> idx]
    ELSE IF node.k = "ListExpr" THEN
        LET r == SolverVisitItems(node.elements, 1, bounded, dict, idx)
        IN  [r EXCEPT !.t = IF r.err = "" THEN [node EXCEPT !.elements = r.t] ELSE None]
    ELSE IF node.k \in {"RecordExpr", "RecordType"} THEN
        LET r == SolverVisitItems([i \in DOMAIN node.fields |-> node.fields[i].v],
                                  1, bounded, dict, idx)
        IN  [r EXCEPT !.t = IF r.err = ""
                            THEN [node EXCEPT !.fields =
                                     [i \in DOMAIN node.fields |->
                                         Entry(node.fields[i].label, r.t[i])]]
                            ELSE None]
    ELSE SolverVisitFrom(node, 1, bounded, dict, idx)

\* the child fields of node from the i-th on, in order
SolverVisitFrom(node, i, bounded, dict, idx) ==
    IF i > Len(NodeFields(node.k)) THEN [err |-> "", t |-> node, idx |-> idx]
    ELSE LET f == NodeFields(node.k)[i]
             r == SolverVisit(node[f], bounded, dict, idx)
         IN  IF r.err # "" THEN r
             ELSE SolverVisitFrom([node EXCEPT ![f] = r.t], i + 1, bounded, dict, r.idx)

\* the items of a list (or the values of a dict), in order
SolverVisitItems(items, i, bounded, dict, idx) ==
    IF i > Len(items) THEN [err |-> "", t |-> <<>>, idx |-> idx]
    ELSE LET h == SolverVisit(items[i], bounded, dict, idx)
             r == SolverVisitItems(items, i + 1, bounded, dict, h.idx)
         IN  IF h.err # "" THEN [h EXCEPT !.t = <<>>]
             ELSE [r EXCEPT !.t = IF r.err = "" THEN <<h.t>> \o r.t ELSE r.t]

\* visit_TypeAssignStmt recording node.type as written, not self.visit of it
RECURSIVE SolverVisitStatementsUnresolved(_, _, _)
SolverVisitStatementsUnresolved(items, dict, idx) ==
    IF items = <<>> THEN [err |-> "", t |-> <<>>, dict |-> dict, idx |-> idx]
    ELSE IF ~IsASTNode(Head(items)) THEN
        LET r == SolverVisitStatementsUnresolved(Tail(items), dict, idx)
        IN  [r EXCEPT !.t = IF r.err = "" THEN <<Head(items)>> \o r.t ELSE r.t]
    ELSE IF Head(items).k = "TypeAssignStmt" THEN
        SolverVisitStatementsUnresolved(Tail(items),
            DictSet(dict, Head(items).name, Head(items).type), idx)
    ELSE
        LET h == SolverVisit(Head(items), <<>>, dict, idx)
            r == SolverVisitStatementsUnresolved(Tail(items), dict, h.idx)
        IN  IF h.err # "" THEN [err |-> h.err, t |-> <<>>, dict |-> dict, idx |-> h.idx]
            ELSE [r EXCEPT !.t = IF r.err = "" THEN <<h.t>> \o r.t ELSE r.t]

\* generic_visit of the Program: visit_TypeAssignStmt records the alias and
\* returns None, so the statement is dropped; a statement that is no
\* ASTNode (a list left by the desugar pass) is appended as it is.
RECURSIVE SolverVisitStatements(_, _, _)
SolverVisitStatements(items, dict, idx) ==
    IF items = <<>> THEN [err |-> "", t |-> <<>>, dict |-> dict, idx |-> idx]
    ELSE IF ~IsASTNode(Head(items)) THEN
        LET r == SolverVisitStatements(Tail(items), dict, idx)
        IN  [r EXCEPT !.t = IF r.err = "" THEN <<Head(items)>> \o r.t ELSE r.t]
    ELSE IF Head(items).k = "TypeAssignStmt" THEN
        LET h == SolverVisit(Head(items).type, <<>>, dict, idx)
        IN  IF h.err # "" THEN [err |-> h.err, t |-> <<>>, dict |-> dict, idx |-> h.idx]
            ELSE SolverVisitStatements(Tail(items),
                                       DictSet(dict, Head(items).name, h.t), h.idx)
    ELSE
        LET h == SolverVisit(Head(items), <<>>, dict, idx)
            r == SolverVisitStatements(Tail(items), dict, h.idx)
        IN  IF h.err # "" THEN [err |-> h.err, t |-> <<>>, dict |-> dict, idx |-> h.idx]
            ELSE [r EXCEPT !.t = IF r.err = "" THEN <<h.t>> \o r.t ELSE r.t]

\* type_solver = TypeSolverVisitor(); tree = type_solver.visit(tree)
Resolve(program, idx) ==
    LET Visited(r) == [err |-> r.err, t |-> [program EXCEPT !.statements = r.t],
                       dict |-> r.dict, idx |-> r.idx]
    IN  Visited(SolverVisitStatements(program.statements, <<>>, idx))


(***************************************************************************)
(* The desugar pass followed by the type resolver, on bounded programs:    *)
(* aliases (plain, polymorphic, bounded, of records and lists), type       *)
(* applications that succeed, fail and rename, lambdas whose parameter     *)
(* type names a type variable, an alias or the parameter itself, and a     *)
(* trait declaration.                                                      *)
(***************************************************************************)
ResolveStmtPool ==
    {ShowTrait,
     TypeAssignStmt("A", IntType),
     TypeAssignStmt("F", ForAllType("x", ForAllType("y",
                             ArrowType(NamedType("x"), NamedType("y")), <<>>), <<>>)),
     TypeAssignStmt("B", AppType(NamedType("F"), NamedType("A"))),
     TypeAssignStmt("C", AppType(IntType, IntType)),
     TypeAssignStmt("D", NamedType("G")),
     TypeAssignStmt("R", RecordType(<<Entry("f", NamedType("A")),
                                      Entry("g", ListType(NamedType("B")))>>)),
     TypeAssignStmt("S", ForAllType("a", NamedType("a"), <<"Show">>)),
     TypeAssignStmt("T", AppType(NamedType("S"), IntType)),
     AssignStmt("f", LambdaExpr("x", NamedType("x"), NamedExpr("x"))),
     AssignStmt("g", TypeLambdaExpr("a",
                         LambdaExpr("v", NamedType("a"), NamedExpr("v")), <<>>)),
     AssignStmt("h", LambdaExpr("v", NamedType("T"), NamedExpr("v"))),
     AssignStmt("k", TypeLambdaExpr("y",
                         TypeAnnotatedExpr(ListExpr(<<>>),
                             ListType(AppType(NamedType("F"), NamedType("y")))), <<>>)),
     ExprStmt(TypeAppExpr(NamedExpr("g"), NamedType("R")))}

ResolvePrograms ==
    {Program(ss) : ss \in UNION {[1..n -> ResolveStmtPool] : n \in 0..MaxStmts}}

InitResolve ==
    /\ pc = "desugar"
    /\ parsed \in ResolvePrograms
    /\ tree = parsed
    /\ result = None
    /\ solver_temp_name_idx = 0
    /\ checker_temp_name_idx = 0
    /\ interp_temp_name_idx = 0

\* main.py: type_solver = TypeSolverVisitor(); tree = type_solver.visit(tree)
ResolvePass ==
    /\ pc = "desugared"
    /\ \E r \in {Resolve(tree, solver_temp_name_idx)} :
           /\ IF r.err # ""
              THEN /\ pc' = "error"
                   /\ result' = Error("TypeError", r.err)
                   /\ tree' = tree
              ELSE /\ pc' = "resolved"
                   /\ result' = r.t
                   /\ tree' = r.t
           /\ solver_temp_name_idx' = r.idx
    /\ UNCHANGED <<parsed, checker_temp_name_idx, interp_temp_name_idx>>

\* a second TypeSolverVisitor().visit on the tree the first one returned;
\* _temp_name_idx is the module's and goes on counting
ResolveAgain ==
    /\ pc = "resolved"
    /\ \E r \in {Resolve(tree, solver_temp_name_idx)} :
           /\ pc' = IF r.err # "" THEN "error_again" ELSE "resolved_again"
           /\ result' = IF r.err # "" THEN Error("TypeError", r.err) ELSE r.t
           /\ solver_temp_name_idx' = r.idx
    /\ UNCHANGED <<parsed, tree, checker_temp_name_idx, interp_temp_name_idx>>

NextResolve == DesugarPass \/ ResolvePass \/ ResolveAgain

SpecResolve == InitResolve /\ [][NextResolve]_vars

\* The nodes directly below a node (or the items of a list a visit_ method
\* returned), in field order.
ChildNodes(node) ==
    IF node.k = "list" THEN node.items
    ELSE [i \in DOMAIN NodeFields(node.k) |-> node[NodeFields(node.k)[i]]]
         \o (IF "statements" \in DOMAIN node THEN node.statements ELSE <<>>)
         \o (IF "elements" \in DOMAIN node THEN node.elements ELSE <<>>)
         \o (IF "items" \in DOMAIN node THEN node.items ELSE <<>>)
         \o (IF "fields" \in DOMAIN node
             THEN [i \in DOMAIN node.fields |-> node.fields[i].v] ELSE <<>>)

\* No TypeAssign statement in the tree, at any depth.
RECURSIVE NoTypeAssign(_)
NoTypeAssign(node) ==
    /\ node.k # "TypeAssignStmt"
    /\ \A i \in DOMAIN ChildNodes(node) : NoTypeAssign(ChildNodes(node)[i])

\* Every Named type below node is a builtin or a variable of scope extended
\* by the TypeLambda and ForAll binders on the way down to it; a Lambda
\* parameter extends nothing.
RECURSIVE NamedTypesBound(_, _)
NamedTypesBound(node, scope) ==
    IF node.k = "NamedType" THEN is_built_in_type(node) \/ node.name \in scope
    ELSE LET inner == IF node.k \in {"TypeLambdaExpr", "ForAllType"}
                      THEN scope \cup {node.param_name} ELSE scope
         IN  \A i \in DOMAIN ChildNodes(node) : NamedTypesBound(ChildNodes(node)[i], inner)

\* C10: after the type resolver returns without error, the tree holds no
\* TypeAssign statement, and every Named type in it is Bool, Int, String or
\* a type variable bound by an enclosing TypeLambda or ForAll.
C10_ResolvedTreeClosed ==
    pc = "resolved" => NoTypeAssign(tree) /\ NamedTypesBound(tree, {})


(***************************************************************************)
(* The type checker (src/src/type_checker.py).                             *)
(*                                                                         *)
(* TypeEq is the == of the type classes of parser.py: ForAllType compares  *)
(* param_name and body (not trait_bounds), RecordType its sorted fields.   *)
(***************************************************************************)
RECURSIVE TypeEq(_, _)
TypeEq(a, b) ==
    IF a.k # b.k THEN FALSE
    ELSE IF a.k = "ForAllType" THEN a.param_name = b.param_name /\ TypeEq(a.body, b.body)
    ELSE IF a.k = "ArrowType" THEN TypeEq(a.left, b.left) /\ TypeEq(a.right, b.right)
    ELSE IF a.k = "AppType" THEN TypeEq(a.func, b.func) /\ TypeEq(a.arg, b.arg)
    ELSE IF a.k = "ListType" THEN TypeEq(a.elem_type, b.elem_type)
    ELSE IF a.k = "RecordType" THEN
        /\ Len(a.fields) = Len(b.fields)
        /\ \A i \in DOMAIN a.fields :
              /\ DictHas(b.fields, a.fields[i].label)
              /\ TypeEq(a.fields[i].v, DictGet(b.fields, a.fields[i].label))
    ELSE a = b

(***************************************************************************)
(* _TypeGetterVisitor.  Returns [err, t].  The class is a NodeVisitor: a   *)
(* node without a visit_ method (AppType) has its children visited and     *)
(* yields None.  visit_ListType reads the element type under the name      *)
(* element_type.                                                           *)
(***************************************************************************)
RECURSIVE TypeGet(_, _, _)
RECURSIVE TypeGetFields(_, _, _, _)
TypeGet(node, bounded, dict) ==
    IF node.k = "ForAllType" THEN
        LET type == TypeGet(node.body, bounded \o <<node.param_name>>, dict)
        IN  IF type.err # "" THEN type
            ELSE [err |-> "", t |-> ForAllType(node.param_name, type.t, <<>>)]
    ELSE IF node.k = "ArrowType" THEN
        LET left_type == TypeGet(node.left, bounded, dict)
            right_type == TypeGet(node.right, bounded, dict)
        IN  IF left_type.err # "" THEN left_type
            ELSE IF right_type.err # "" THEN right_type
            ELSE [err |-> "", t |-> ArrowType(left_type.t, right_type.t)]
    ELSE IF node.k = "NamedType" THEN
        IF is_built_in_type(node) THEN [err |-> "", t |-> node]
        ELSE IF \E i \in DOMAIN bounded : bounded[i] = node.name THEN [err |-> "", t |-> node]
        ELSE IF DictHas(dict, node.name) THEN [err |-> "", t |-> DictGet(dict, node.name)]
        ELSE [err |-> "Unknown type", t |-> None]
    ELSE IF node.k = "ListType" THEN
        LET e == TypeGet(node.elem_type, bounded, dict)
        IN  IF e.err # "" THEN e ELSE [err |-> "", t |-> ListType(e.t)]
    ELSE IF node.k = "RecordType" THEN TypeGetFields(node.fields, 1, bounded, dict)
    ELSE IF node.k = "AppType" THEN
        LET f == TypeGet(node.func, bounded, dict)
            a == TypeGet(node.arg, bounded, dict)
        IN  IF f.err # "" THEN f ELSE IF a.err # "" THEN a ELSE [err |-> "", t |-> None]
    ELSE [err |-> "", t |-> None]

TypeGetFields(fields, i, bounded, dict) ==
    IF i > Len(fields) THEN [err |-> "", t |-> RecordType(<<>>)]
    ELSE LET h == TypeGet(fields[i].v, bounded, dict)
             r == TypeGetFields(fields, i + 1, bounded, dict)
         IN  IF h.err # "" THEN h
             ELSE IF r.err # "" THEN r
             ELSE [err |-> "", t |-> RecordType(<<Entry(fields[i].label, h.t)>> \o r.t.fields)]

\* Env.get that asks the outer environment before its own vars
EnvGetOutermost(genv, locals, name) ==
    IF DictHas(genv, name) THEN [err |-> "", t |-> DictGet(genv, name)]
    ELSE IF DictHas(locals, name)
    THEN [err |-> "",
          t |-> locals[CHOOSE i \in DOMAIN locals :
                          /\ locals[i].label = name
                          /\ \A j \in DOMAIN locals : locals[j].label = name => i <= j].v]
    ELSE [err |-> "Unbound variable", t |-> None]

\* Env.get on the chain of environments: locals holds the bindings of the
\* enclosing lambdas, innermost last, and genv is global_env.vars.
EnvGet(genv, locals, name) ==
    IF DictHas(locals, name)
    THEN [err |-> "",
          t |-> locals[CHOOSE i \in DOMAIN locals :
                          /\ locals[i].label = name
                          /\ \A j \in DOMAIN locals : locals[j].label = name => j <= i].v]
    ELSE IF DictHas(genv, name) THEN [err |-> "", t |-> DictGet(genv, name)]
    ELSE [err |-> "Unbound variable", t |-> None]


(***************************************************************************)
(* TypeCheckerVisitor.visit on an expression.  env is [genv, locals,       *)
(* bounded, dict]: global_env.vars, the bindings of the environments       *)
(* chained below cur_env, and the bounded_var_names and global_var_dict of *)
(* the type getter.  Returns [err, t, n, idx]: the error raised, the type  *)
(* returned, the node as the checker leaves it and _temp_name_idx.         *)
(*                                                                         *)
(* The dispatcher reads node.func.checked_type, which no statement of      *)
(* type_checker.py writes; n carries, on the function of each TypeAppExpr, *)
(* a checked_type field holding the type the checker computed for it       *)
(* (WithCheckedType).                                                      *)
(***************************************************************************)
\* node.checked_type = type
WithCheckedType(node, type) ==
    [f \in DOMAIN node \cup {"checked_type"} |->
        IF f = "checked_type" THEN type ELSE node[f]]

RECURSIVE CheckExpr(_, _, _)
RECURSIVE CheckItems(_, _, _, _)
RECURSIVE CheckElements(_, _, _, _, _)
CheckExpr(node, env, idx) ==
    LET Fail(msg, i) == [err |-> msg, t |-> None, n |-> None, idx |-> i]
        Ok(type, new_node, i) == [err |-> "", t |-> type, n |-> new_node, idx |-> i]
        k == node.k
    IN
    IF k = "LambdaExpr" THEN
        LET param_type == TypeGet(node.param_type, env.bounded, env.dict)
            body == CheckExpr(node.body,
                        [env EXCEPT !.locals =
                            Append(@, Entry(node.param_name, param_type.t))], idx)
        IN  IF param_type.err # "" THEN Fail(param_type.err, idx)
            ELSE IF body.err # "" THEN body
            ELSE Ok(ArrowType(param_type.t, body.t), [node EXCEPT !.body = body.n], body.idx)
    ELSE IF k = "TypeLambdaExpr" THEN
        LET body == CheckExpr(node.body,
                        [env EXCEPT !.locals = Append(@, Entry(node.param_name, TypeType)),
                                    !.bounded = Append(@, node.param_name)], idx)
        IN  IF body.err # "" THEN body
            ELSE Ok(ForAllType(node.param_name, body.t, <<>>),
                    [node EXCEPT !.body = body.n], body.idx)
    ELSE IF k = "IfExpr" THEN
        LET r == CheckItems(<<node.condition, node.then_expr, node.else_expr>>, 1, env, idx)
        IN  IF r.err # "" THEN Fail(r.err, r.idx)
            ELSE IF ~TypeEq(r.t[1], BoolType)
                 THEN Fail("'IfExpr' object has no attribute 'cond'", r.idx)
            ELSE IF ~TypeEq(r.t[2], r.t[3]) THEN Fail("Expected then-type", r.idx)
            ELSE Ok(r.t[2], [node EXCEPT !.condition = r.n[1], !.then_expr = r.n[2],
                                         !.else_expr = r.n[3]], r.idx)
    ELSE IF k \in {"LogicOrExpr", "LogicAndExpr", "RelExpr", "AddExpr", "MulExpr"} THEN
        LET r == CheckItems(<<node.left, node.right>>, 1, env, idx)
            operand == IF k \in {"LogicOrExpr", "LogicAndExpr"} THEN BoolType ELSE IntType
            new_node == [node EXCEPT !.left = r.n[1], !.right = r.n[2]]
        IN  IF r.err # "" THEN Fail(r.err, r.idx)
            ELSE IF k = "RelExpr" /\ node.op \in {"==", "!="} THEN
                IF ~TypeEq(r.t[1], r.t[2]) THEN Fail("Expected left type", r.idx)
                ELSE Ok(BoolType, new_node, r.idx)
            ELSE IF ~TypeEq(r.t[1], operand) \/ ~TypeEq(r.t[2], operand)
                 THEN Fail("Expected '" \o operand.name \o "'", r.idx)
            ELSE Ok(IF k \in {"AddExpr", "MulExpr"} THEN IntType ELSE BoolType,
                    new_node, r.idx)
    ELSE IF k \in {"LogicNotExpr", "NegExpr"} THEN
        LET r == CheckExpr(node.expr, env, idx)
            operand == IF k = "LogicNotExpr" THEN BoolType ELSE IntType
        IN  IF r.err # "" THEN r
            ELSE IF ~TypeEq(r.t, operand) THEN Fail("Expected '" \o operand.name \o "'", r.idx)
            ELSE Ok(operand, [node EXCEPT !.expr = r.n], r.idx)
    ELSE IF k = "FieldAccessExpr" THEN
        LET r == CheckExpr(node.record, env, idx)
        IN  IF r.err # "" THEN r
            ELSE IF r.t.k # "RecordType" THEN Fail("Expected record", r.idx)
            ELSE IF ~DictHas(r.t.fields, node.field_name) THEN Fail("Unknown field", r.idx)
            ELSE Ok(DictGet(r.t.fields, node.field_name),
                    [node EXCEPT !.record = r.n], r.idx)
    ELSE IF k = "AppExpr" THEN
        LET r == CheckItems(<<node.func, node.arg>>, 1, env, idx)
        IN  IF r.err # "" THEN Fail(r.err, r.idx)
            ELSE IF r.t[1].k # "ArrowType" THEN Fail("Arrow type expected", r.idx)
            ELSE IF ~TypeEq(r.t[1].left, r.t[2]) THEN Fail("Expected argument type", r.idx)
            ELSE Ok(r.t[1].right, [node EXCEPT !.func = r.n[1], !.arg = r.n[2]], r.idx)
    ELSE IF k = "TypeAppExpr" THEN
        LET forall_type == CheckExpr(node.func, env, idx)
            type_arg == TypeGet(node.type_arg, env.bounded, env.dict)
            app == CheckerSubst(forall_type.t.body, forall_type.t.param_name,
                                type_arg.t, forall_type.idx)
            func == WithCheckedType(forall_type.n, forall_type.t)
        IN  IF forall_type.err # "" THEN forall_type
            ELSE IF type_arg.err # "" THEN Fail(type_arg.err, forall_type.idx)
            ELSE IF forall_type.t.k # "ForAllType"
                 THEN Fail("For-all type expected", forall_type.idx)
            ELSE Ok(app.t, [node EXCEPT !.func = func], app.idx)
    ELSE IF k = "TypeAnnotatedExpr" THEN
        LET r == CheckExpr(node.expr, env, idx)
            type == TypeGet(node.type, env.bounded, env.dict)
        IN  IF r.err # "" THEN r
            ELSE IF type.err # "" THEN Fail(type.err, r.idx)
            ELSE IF ~TypeEq(r.t, type.t) THEN Fail("Annotated type", r.idx)
            ELSE Ok(r.t, [node EXCEPT !.expr = r.n], r.idx)
    ELSE IF k = "NamedExpr" THEN
        LET type == EnvGet(env.genv, env.locals, node.name)
        IN  IF type.err # "" THEN Fail(type.err, idx)
            ELSE IF type.t = TypeType THEN Fail("is a type, not a variable", idx)
            ELSE Ok(type.t, node, idx)
    ELSE IF k = "ValueExpr" THEN
        Ok(IF node.value.py = "bool" THEN BoolType
           ELSE IF node.value.py = "int" THEN IntType ELSE StringType, node, idx)
    ELSE IF k = "ListExpr" THEN
        IF Len(node.elements) = 0 THEN Ok(ListType(None), node, idx)
        ELSE LET first == CheckExpr(node.elements[1], env, idx)
                 rest == CheckElements(node.elements, 2, first.t, env, first.idx)
             IN  IF first.err # "" THEN first
                 ELSE IF rest.err # "" THEN Fail(rest.err, rest.idx)
                 ELSE Ok(ListType(first.t),
                         [node EXCEPT !.elements = <<first.n>> \o rest.n], rest.idx)
    ELSE IF k = "RecordExpr" THEN
        LET r == CheckItems([i \in DOMAIN node.fields |-> node.fields[i].v], 1, env, idx)
        IN  IF r.err # "" THEN Fail(r.err, r.idx)
            ELSE Ok(RecordType([i \in DOMAIN node.fields |->
                                   Entry(node.fields[i].label, r.t[i])]),
                    [node EXCEPT !.fields = [i \in DOMAIN node.fields |->
                                   Entry(node.fields[i].label, r.n[i])]], r.idx)
    ELSE Ok(None, node, idx)

\* self.visit on each of items from the i-th on, in order
CheckItems(items, i, env, idx) ==
    IF i > Len(items) THEN [err |-> "", t |-> <<>>, n |-> <<>>, idx |-> idx]
    ELSE LET h == CheckExpr(items[i], env, idx)
             r == CheckItems(items, i + 1, env, h.idx)
         IN  IF h.err # "" THEN [err |-> h.err, t |-> <<>>, n |-> <<>>, idx |-> h.idx]
             ELSE IF r.err # "" THEN r
             ELSE [err |-> "", t |-> <<h.t>> \o r.t, n |-> <<h.n>> \o r.n, idx |-> r.idx]

\* visit_ListExpr: the loop over node.elements[1:]
CheckElements(items, i, first_type, env, idx) ==
    IF i > Len(items) THEN [err |-> "", n |-> <<>>, idx |-> idx]
    ELSE LET h == CheckExpr(items[i], env, idx)
             r == CheckElements(items, i + 1, first_type, env, h.idx)
         IN  IF h.err # "" THEN [err |-> h.err, n |-> <<>>, idx |-> h.idx]
             ELSE IF ~TypeEq(first_type, h.t)
                  THEN [err |-> "Expected first type", n |-> <<>>, idx |-> h.idx]
             ELSE IF r.err # "" THEN r
             ELSE [err |-> "", n |-> <<h.n>> \o r.n, idx |-> r.idx]


\* NodeVisitor.generic_visit of the Program by the checker: each statement
\* that is an ASTNode is visited with cur_env = global_env; an element that
\* is a list is passed over.  Returns [err, t, genv, dict, idx].
RECURSIVE CheckStatements(_, _, _, _)
CheckStatements(items, genv, dict, idx) ==
    IF items = <<>>
    THEN [err |-> "", t |-> <<>>, genv |-> genv, dict |-> dict, idx |-> idx]
    ELSE
    LET node == Head(items)
        env == [genv |-> genv, locals |-> <<>>, bounded |-> <<>>, dict |-> dict]
        Fail(msg, i) == [err |-> msg, t |-> <<>>, genv |-> genv, dict |-> dict, idx |-> i]
        Prepend(new_node, r) ==
            [r EXCEPT !.t = IF r.err = "" THEN <<new_node>> \o r.t ELSE r.t]
        \* visit_AssignStmt, visit_ExprStmt and the generic visit of an
        \* InstanceEnvStmt, after self.visit of the statement's expression
        Visited(field, r) ==
            IF r.err # "" THEN Fail(r.err, r.idx)
            ELSE Prepend([node EXCEPT ![field] = r.n],
                         CheckStatements(Tail(items),
                             IF node.k = "AssignStmt" THEN DictSet(genv, node.name, r.t)
                             ELSE genv, dict, r.idx))
        \* visit_TypeAssignStmt, after type_getter_visitor.visit(node.type)
        Aliased(type) ==
            IF type.err # "" THEN Fail(type.err, idx)
            ELSE Prepend(node, CheckStatements(Tail(items), genv,
                                   DictSet(dict, node.name, type.t), idx))
    IN
    IF IsASTNode(node) /\ node.k \in {"AssignStmt", "ExprStmt"}
    THEN Visited("expr", CheckExpr(node.expr, env, idx))
    ELSE IF IsASTNode(node) /\ node.k = "InstanceEnvStmt"
    THEN Visited("inst_expr", CheckExpr(node.inst_expr, env, idx))
    ELSE IF IsASTNode(node) /\ node.k = "TypeAssignStmt"
    THEN Aliased(TypeGet(node.type, <<>>, dict))
    ELSE Prepend(node, CheckStatements(Tail(items), genv, dict, idx))

\* type_checker = TypeCheckerVisitor(); type_checker.visit(tree)
Check(program, idx) ==
    LET Visited(r) == [err |-> r.err, t |-> [program EXCEPT !.statements = r.t],
                       genv |-> r.genv, idx |-> r.idx]
    IN  Visited(CheckStatements(program.statements, <<>>, <<>>, idx))

\* main.py: type_checker = TypeCheckerVisitor(); type_checker.visit(tree)
CheckPass ==
    /\ pc = "resolved"
    /\ \E r \in {Check(tree, checker_temp_name_idx)} :
           /\ IF r.err # ""
              THEN /\ pc' = "error"
                   /\ result' = Error(IF r.err = "'IfExpr' object has no attribute 'cond'"
                                      THEN "AttributeError" ELSE "TypeError", r.err)
                   /\ tree' = tree
              ELSE /\ pc' = "checked"
                   /\ result' = r.genv
                   /\ tree' = r.t
           /\ checker_temp_name_idx' = r.idx
    /\ UNCHANGED <<parsed, solver_temp_name_idx, interp_temp_name_idx>>


(***************************************************************************)
(* DispatcherVisitor (src/src/dispatcher.py).  st is the visitor's state   *)
(* [which_trait, get_inst, tmp_idx]: which_trait a dict field |-> trait,   *)
(* get_inst a sequence of [trait, type, v] entries whose key is the pair   *)
(* (trait, type) compared with ==, tmp_idx the counter _tmp_idx.           *)
(* DispatchVisit returns [err, t, st].                                     *)
(***************************************************************************)
\* self.get_inst[(trait_name, inst_type)] = inst_expr
InstSet(get_inst, trait_name, inst_type, inst_expr) ==
    IF \E i \in DOMAIN get_inst :
          get_inst[i].trait = trait_name /\ TypeEq(get_inst[i].type, inst_type)
    THEN [i \in DOMAIN get_inst |->
             IF get_inst[i].trait = trait_name /\ TypeEq(get_inst[i].type, inst_type)
             THEN [get_inst[i] EXCEPT !.v = inst_expr] ELSE get_inst[i]]
    ELSE Append(get_inst, [trait |-> trait_name, type |-> inst_type, v |-> inst_expr])

\* self.get_inst[(trait_name, inst_type)], a KeyError when the key is missing
InstGet(get_inst, trait_name, inst_type) ==
    IF \E i \in DOMAIN get_inst :
          get_inst[i].trait = trait_name /\ TypeEq(get_inst[i].type, inst_type)
    THEN [err |-> "",
          t |-> get_inst[CHOOSE i \in DOMAIN get_inst :
                   get_inst[i].trait = trait_name /\ TypeEq(get_inst[i].type, inst_type)].v]
    ELSE [err |-> "KeyError", t |-> None]

\* dict.pop(name, None)
DictPop(d, label) == SelectSeq(d, LAMBDA e : e.label # label)

RECURSIVE DispatchVisit(_, _)
RECURSIVE DispatchFrom(_, _, _)
RECURSIVE DispatchItems(_, _, _)
RECURSIVE DispatchBounds(_, _, _, _, _)
RECURSIVE DispatchApply(_, _, _, _, _)

\* visit_TypeLambdaExpr: the loop over node.trait_bounds from the i-th on
DispatchBounds(trait_bounds, i, param_name, body, st) ==
    IF i > Len(trait_bounds) THEN [t |-> body, st |-> st]
    ELSE LET trait == trait_bounds[i]
             dict_param == NamedExpr("__dictp_" \o trait \o "_" \o ToString(st.tmp_idx + 1))
         IN  DispatchBounds(trait_bounds, i + 1, param_name,
                 LambdaExpr(dict_param.name, TypeType, body),
                 [st EXCEPT !.tmp_idx = @ + 1,
                            !.get_inst = InstSet(@, trait, NamedType(param_name), dict_param)])

\* visit_TypeAppExpr: the loop over node.func.checked_type.trait_bounds
DispatchApply(trait_bounds, i, type_arg, app, get_inst) ==
    IF i > Len(trait_bounds) THEN [err |-> "", t |-> app]
    ELSE LET inst_expr == InstGet(get_inst, trait_bounds[i], type_arg)
         IN  IF inst_expr.err # "" THEN inst_expr
             ELSE DispatchApply(trait_bounds, i + 1, type_arg,
                                AppExpr(app, inst_expr.t), get_inst)

DispatchVisit(node, st) ==
    LET \* self.which_trait.pop(name, None) ... if popped: self.which_trait[name] = popped
        Scoped(name, body) ==
            LET r == DispatchVisit(body, [st EXCEPT !.which_trait = DictPop(@, name)])
            IN  IF r.err # "" \/ ~DictHas(st.which_trait, name) THEN r
                ELSE [r EXCEPT !.st.which_trait =
                         DictSet(@, name, DictGet(st.which_trait, name))]
    IN
    IF node.k = "TraitFieldEnvStmt" THEN
        [err |-> "", t |-> node,
         st |-> [st EXCEPT !.which_trait = DictSet(@, node.field_name, node.trait_name)]]
    ELSE IF node.k = "InstanceEnvStmt" THEN
        [err |-> "", t |-> node,
         st |-> [st EXCEPT !.get_inst = InstSet(@, node.name, node.type_param,
                                                node.inst_expr)]]
    ELSE IF node.k = "AssignStmt" THEN
        LET r == DispatchVisit(node.expr,
                               [st EXCEPT !.which_trait = DictPop(@, node.name)])
        IN  [r EXCEPT !.t = IF r.err = "" THEN [node EXCEPT !.expr = r.t] ELSE None]
    ELSE IF node.k = "LambdaExpr" THEN
        LET r == Scoped(node.param_name, node.body)
        IN  [r EXCEPT !.t = IF r.err = "" THEN [node EXCEPT !.body = r.t] ELSE None]
    ELSE IF node.k = "TypeLambdaExpr" THEN
        LET b == DispatchBounds(node.trait_bounds, 1, node.param_name, node.body,
                                [st EXCEPT !.which_trait = DictPop(@, node.param_name)])
            r == DispatchVisit(b.t, b.st)
        IN  IF r.err # "" THEN [r EXCEPT !.t = None]
            ELSE [err |-> "", t |-> [node EXCEPT !.body = r.t],
                  st |-> IF DictHas(st.which_trait, node.param_name)
                         THEN [r.st EXCEPT !.which_trait =
                                  DictSet(@, node.param_name,
                                          DictGet(st.which_trait, node.param_name))]
                         ELSE r.st]
    ELSE IF node.k = "TypeAppExpr" THEN
        IF node.func.k = "NamedExpr" /\ DictHas(st.which_trait, node.func.name) THEN
            LET inst_expr == InstGet(st.get_inst,
                                     DictGet(st.which_trait, node.func.name), node.type_arg)
            IN  IF inst_expr.err # "" THEN [err |-> inst_expr.err, t |-> None, st |-> st]
                ELSE [err |-> "", t |-> FieldAccessExpr(inst_expr.t, node.func.name),
                      st |-> st]
        ELSE IF "checked_type" \notin DOMAIN node.func THEN
            [err |-> "AttributeError", t |-> None, st |-> st]
        ELSE IF /\ node.func.checked_type.k = "ForAllType"
                /\ Len(node.func.checked_type.trait_bounds) > 0 THEN
            LET app == DispatchApply(node.func.checked_type.trait_bounds, 1,
                                     node.type_arg, node, st.get_inst)
            IN  [err |-> app.err, t |-> app.t, st |-> st]
        ELSE
            LET r == DispatchVisit(node.func, st)
            IN  [r EXCEPT !.t = IF r.err = "" THEN [node EXCEPT !.func = r.t] ELSE None]
    ELSE IF node.k = "NamedExpr" THEN
        IF DictHas(st.which_trait, node.name)
        THEN [err |-> "Unsolved trait field accessor", t |-> None, st |-> st]
        ELSE [err |-> "", t |-> node, st |-> st]
    ELSE IF node.k \in {"Program", "ListExpr"} THEN
        LET f == IF node.k = "Program" THEN "statements" ELSE "elements"
            r == DispatchItems(node[f], 1, st)
        IN  [r EXCEPT !.t = IF r.err = "" THEN [node EXCEPT ![f] = r.t] ELSE None]
    ELSE IF node.k = "RecordExpr" THEN
        LET r == DispatchItems([i \in DOMAIN node.fields |-> node.fields[i].v], 1, st)
        IN  [r EXCEPT !.t = IF r.err = ""
                            THEN [node EXCEPT !.fields =
                                     [i \in DOMAIN node.fields |->
                                         Entry(node.fields[i].label, r.t[i])]]
                            ELSE None]
    ELSE IF node.k \in TypeKinds \/ ~IsASTNode(node) THEN [err |-> "", t |-> node, st |-> st]
    ELSE DispatchFrom(node, 1, st)

\* generic_visit: the child fields of node from the i-th on, in order
DispatchFrom(node, i, st) ==
    IF i > Len(NodeFields(node.k)) THEN [err |-> "", t |-> node, st |-> st]
    ELSE LET f == NodeFields(node.k)[i]
             r == DispatchVisit(node[f], st)
         IN  IF r.err # "" THEN r
             ELSE DispatchFrom([node EXCEPT ![f] = r.t], i + 1, r.st)

\* generic_visit: the items of a list (or the values of a dict), in order;
\* an item that is no ASTNode is appended as it is
DispatchItems(items, i, st) ==
    IF i > Len(items) THEN [err |-> "", t |-> <<>>, st |-> st]
    ELSE LET h == DispatchVisit(items[i], st)
             r == DispatchItems(items, i + 1, h.st)
         IN  IF h.err # "" THEN [h EXCEPT !.t = <<>>]
             ELSE [r EXCEPT !.t = IF r.err = "" THEN <<h.t>> \o r.t ELSE r.t]

\* dispatcher = DispatcherVisitor(); tree = dispatcher.visit(tree)
Dispatch(program) ==
    DispatchVisit(program, [which_trait |-> <<>>, get_inst |-> <<>>, tmp_idx |-> 0])


(***************************************************************************)
(* InterpreterVisitor (src/src/interpreter.py).                            *)
(*                                                                         *)
(* PyBinOp is the Python operator that visit_RelExpr, visit_AddExpr and    *)
(* visit_MulExpr apply to the .value of two ValueExpr: bool counts as int, *)
(* + joins two strings, * repeats a string, / is floor division (//), %    *)
(* takes the sign of the divisor, and operands the operator does not       *)
(* accept raise Python's TypeError.  A zero divisor raises the runtime     *)
(* error 'Division by zero'.                                               *)
(* Two different strings are ordered by their place in StringOrder.        *)
(***************************************************************************)
StringOrder == <<"", "i", "s", "t">>

PyBinOp(op, l, r) ==
    LET IsNum(x) == x.py \in {"int", "bool"}
        Num(x) == IF x.py = "bool" THEN (IF x.v THEN 1 ELSE 0) ELSE x.v
        Both == IsNum(l) /\ IsNum(r)
        Strs == l.py = "str" /\ r.py = "str"
        Val(py, v) == [err |-> "", t |-> ValueExpr(py, v)]
        Bad == [err |-> "TypeError: unsupported operand type(s) for " \o op, t |-> None]
        Abs(n) == IF n < 0 THEN -n ELSE n
        FloorDiv(a, b) == IF (a >= 0) = (b > 0) \/ a = 0 THEN Abs(a) \div Abs(b)
                          ELSE -((Abs(a) + Abs(b) - 1) \div Abs(b))
        Place(x) == CHOOSE i \in DOMAIN StringOrder : StringOrder[i] = x
        Less == IF Both THEN Num(l) < Num(r) ELSE Place(l.v) < Place(r.v)
        Same == IF Both THEN Num(l) = Num(r) ELSE l.py = r.py /\ l.v = r.v
        RECURSIVE Repeat(_, _)
        Repeat(x, n) == IF n <= 0 THEN "" ELSE x \o Repeat(x, n - 1)
    IN
    IF op = "==" THEN Val("bool", Same)
    ELSE IF op = "!=" THEN Val("bool", ~Same)
    ELSE IF op \in {"<", "<=", ">", ">="} THEN
        IF ~(Both \/ Strs) THEN Bad
        ELSE Val("bool", CASE op = "<" -> Less
                           [] op = "<=" -> Less \/ Same
                           [] op = ">" -> ~Less /\ ~Same
                           [] op = ">=" -> ~Less)
    ELSE IF op = "+" THEN
        IF Both THEN Val("int", Num(l) + Num(r))
        ELSE IF Strs THEN Val("str", l.v \o r.v) ELSE Bad
    ELSE IF op = "-" THEN IF Both THEN Val("int", Num(l) - Num(r)) ELSE Bad
    ELSE IF op = "*" THEN
        IF Both THEN Val("int", Num(l) * Num(r))
        ELSE IF l.py = "str" /\ IsNum(r) THEN Val("str", Repeat(l.v, Num(r)))
        ELSE IF IsNum(l) /\ r.py = "str" THEN Val("str", Repeat(r.v, Num(l)))
        ELSE Bad
    ELSE IF op \in {"/", "%"} THEN
        IF IsNum(r) /\ Num(r) = 0
        THEN [err |-> "ValueError: Runtime Error: Division by zero", t |-> None]
        ELSE IF ~Both THEN Bad
        ELSE IF op = "/" THEN Val("int", FloorDiv(Num(l), Num(r)))
        ELSE Val("int", Num(l) - Num(r) * FloorDiv(Num(l), Num(r)))
    ELSE [err |-> "ValueError: Runtime Error: Unknown operator", t |-> None]


(***************************************************************************)
(* InterpreterVisitor.visit on an expression.  globals is                  *)
(* self.global_var_dict; self.bounded_var_names is empty at every visit    *)
(* (visit_LambdaExpr pops what it pushed before it returns and visits      *)
(* nothing in between).  Returns [err, t, idx]: the exception raised, the  *)
(* node returned and _temp_name_idx.  No node the parser builds has        *)
(* is_builtin set.                                                         *)
(***************************************************************************)
RECURSIVE EvalExpr(_, _, _)
RECURSIVE EvalItems(_, _, _, _)

\* visit_LogicOrExpr / visit_LogicAndExpr visiting node.right before the
\* test of left_eval
visit_LogicExprEager(node, globals, idx) ==
    LET left_eval == EvalExpr(node.left, globals, idx)
        right_eval == EvalExpr(node.right, globals, left_eval.idx)
        is_true(e) == e.k = "ValueExpr" /\ e.value.py = "bool" /\ e.value.v = TRUE
        is_false(e) == e.k = "ValueExpr" /\ e.value.py = "bool" /\ e.value.v = FALSE
        short(e) == IF node.k = "LogicOrExpr" THEN is_true(e) ELSE is_false(e)
        other(e) == IF node.k = "LogicOrExpr" THEN is_false(e) ELSE is_true(e)
    IN  IF left_eval.err # "" THEN left_eval
        ELSE IF right_eval.err # "" THEN right_eval
        ELSE IF short(left_eval.t) THEN [left_eval EXCEPT !.idx = right_eval.idx]
        ELSE IF short(right_eval.t) THEN right_eval
        ELSE IF other(left_eval.t) /\ other(right_eval.t)
             THEN [err |-> "", t |-> left_eval.t, idx |-> right_eval.idx]
        ELSE [err |-> "",
              t |-> [node EXCEPT !.left = left_eval.t, !.right = right_eval.t],
              idx |-> right_eval.idx]

\* visit_LogicOrExpr / visit_LogicAndExpr: node.right is visited only after
\* the test of left_eval has not returned
visit_LogicExpr(node, globals, idx) ==
    LET left_eval == EvalExpr(node.left, globals, idx)
        right_eval == EvalExpr(node.right, globals, left_eval.idx)
        is_true(e) == e.k = "ValueExpr" /\ e.value.py = "bool" /\ e.value.v = TRUE
        is_false(e) == e.k = "ValueExpr" /\ e.value.py = "bool" /\ e.value.v = FALSE
        short(e) == IF node.k = "LogicOrExpr" THEN is_true(e) ELSE is_false(e)
        other(e) == IF node.k = "LogicOrExpr" THEN is_false(e) ELSE is_true(e)
    IN  IF left_eval.err # "" \/ short(left_eval.t) THEN left_eval
        ELSE IF right_eval.err # "" \/ short(right_eval.t) THEN right_eval
        ELSE IF other(left_eval.t) /\ other(right_eval.t)
             THEN [err |-> "", t |-> left_eval.t, idx |-> right_eval.idx]
        ELSE [err |-> "",
              t |-> [node EXCEPT !.left = left_eval.t, !.right = right_eval.t],
              idx |-> right_eval.idx]

EvalExpr(node, globals, idx) ==
    LET Fail(msg, i) == [err |-> msg, t |-> None, idx |-> i]
        Ok(new_node, i) == [err |-> "", t |-> new_node, idx |-> i]
        k == node.k
        is_val(e) == e.k = "ValueExpr"
        is_true(e) == e.k = "ValueExpr" /\ e.value.py = "bool" /\ e.value.v = TRUE
        is_false(e) == e.k = "ValueExpr" /\ e.value.py = "bool" /\ e.value.v = FALSE
    IN
    IF k = "LambdaExpr" THEN Ok([node EXCEPT !.param_type = None], idx)
    ELSE IF k \in {"TypeLambdaExpr"} THEN EvalExpr(node.body, globals, idx)
    ELSE IF k = "TypeAppExpr" THEN EvalExpr(node.func, globals, idx)
    ELSE IF k = "TypeAnnotatedExpr" THEN EvalExpr(node.expr, globals, idx)
    ELSE IF k = "IfExpr" THEN
        LET cond_eval == EvalExpr(node.condition, globals, idx)
            r == EvalItems(<<node.then_expr, node.else_expr>>, 1, globals, cond_eval.idx)
        IN  IF cond_eval.err # "" THEN cond_eval
            ELSE IF is_true(cond_eval.t) THEN EvalExpr(node.then_expr, globals, cond_eval.idx)
            ELSE IF is_false(cond_eval.t) THEN EvalExpr(node.else_expr, globals, cond_eval.idx)
            ELSE IF r.err # "" THEN Fail(r.err, r.idx)
            ELSE Ok([node EXCEPT !.condition = cond_eval.t, !.then_expr = r.t[1],
                                 !.else_expr = r.t[2]], r.idx)
    ELSE IF k \in {"LogicOrExpr", "LogicAndExpr"} THEN visit_LogicExpr(node, globals, idx)
    ELSE IF k = "LogicNotExpr" THEN
        LET eval == EvalExpr(node.expr, globals, idx)
        IN  IF eval.err # "" THEN eval
            ELSE IF is_true(eval.t) THEN Ok(ValueExpr("bool", FALSE), eval.idx)
            ELSE IF is_false(eval.t) THEN Ok(ValueExpr("bool", TRUE), eval.idx)
            ELSE Ok([node EXCEPT !.expr = eval.t], eval.idx)
    ELSE IF k \in {"RelExpr", "AddExpr", "MulExpr"} THEN
        LET r == EvalItems(<<node.left, node.right>>, 1, globals, idx)
            v == PyBinOp(node.op, r.t[1].value, r.t[2].value)
        IN  IF r.err # "" THEN Fail(r.err, r.idx)
            ELSE IF is_val(r.t[1]) /\ is_val(r.t[2]) THEN
                IF v.err # "" THEN Fail(v.err, r.idx) ELSE Ok(v.t, r.idx)
            ELSE IF k = "AddExpr" /\ r.t[1].k = "ListExpr" /\ r.t[2].k = "ListExpr"
                 THEN Ok(ListExpr(r.t[1].elements \o r.t[2].elements), r.idx)
            ELSE Ok([node EXCEPT !.left = r.t[1], !.right = r.t[2]], r.idx)
    ELSE IF k = "NegExpr" THEN
        LET eval == EvalExpr(node.expr, globals, idx)
            v == PyBinOp("-", [py |-> "int", v |-> 0], eval.t.value)
        IN  IF eval.err # "" THEN eval
            ELSE IF is_val(eval.t) THEN
                IF v.err # "" THEN Fail("TypeError: bad operand type for unary -", eval.idx)
                ELSE Ok(v.t, eval.idx)
            ELSE Ok([node EXCEPT !.expr = eval.t], eval.idx)
    ELSE IF k = "AppExpr" THEN
        LET r == EvalItems(<<node.func, node.arg>>, 1, globals, idx)
            func_eval == r.t[1]
            arg_eval == r.t[2]
            subst == TermSubst(func_eval.body, func_eval.param_name, arg_eval, r.idx)
        IN  IF r.err # "" THEN Fail(r.err, r.idx)
            ELSE IF func_eval.k = "LambdaExpr" THEN EvalExpr(subst.t, globals, subst.idx)
            ELSE IF func_eval.k = "NamedExpr" /\ func_eval.is_builtin
                    /\ func_eval.name \in {"print", "println", "string_to_int",
                                           "int_to_string", "head", "tail"} THEN
                IF func_eval.name \in {"head", "tail"} THEN
                    IF "elements" \notin DOMAIN arg_eval
                    THEN Fail("AttributeError: elements", r.idx)
                    ELSE IF func_eval.name = "tail"
                    THEN Ok([arg_eval EXCEPT !.elements =
                                IF @ = <<>> THEN <<>> ELSE Tail(@)], r.idx)
                    ELSE IF Len(arg_eval.elements) = 0
                    THEN Fail("ValueError: Runtime Error: Calling 'head' on empty list", r.idx)
                    ELSE Ok(arg_eval.elements[1], r.idx)
                ELSE IF ~is_val(arg_eval) THEN Fail("AttributeError: value", r.idx)
                ELSE IF func_eval.name = "int_to_string"
                THEN Ok(ValueExpr("str", ToString(arg_eval.value.v)), r.idx)
                ELSE IF func_eval.name = "string_to_int" THEN
                    IF \E d \in 0..9 : ToString(d) = arg_eval.value.v
                    THEN Ok(ValueExpr("int", CHOOSE d \in 0..9 : ToString(d) = arg_eval.value.v),
                            r.idx)
                    ELSE Fail("ValueError: invalid literal for int()", r.idx)
                ELSE Ok(arg_eval, r.idx)
            ELSE Ok([node EXCEPT !.func = func_eval, !.arg = arg_eval], r.idx)
    ELSE IF k = "FieldAccessExpr" THEN
        LET record_eval == EvalExpr(node.record, globals, idx)
        IN  IF record_eval.err # "" THEN record_eval
            ELSE IF record_eval.t.k = "RecordExpr" THEN
                IF ~DictHas(record_eval.t.fields, node.field_name)
                THEN Fail("KeyError", record_eval.idx)
                ELSE EvalExpr(DictGet(record_eval.t.fields, node.field_name),
                              globals, record_eval.idx)
            ELSE Ok([node EXCEPT !.record = record_eval.t], record_eval.idx)
    ELSE IF k = "NamedExpr" THEN
        IF DictHas(globals, node.name) THEN Ok(DictGet(globals, node.name), idx)
        ELSE IF node.is_builtin THEN
            IF node.name = "read" THEN Ok(ValueExpr("str", ""), idx)
            ELSE IF node.name = "cons" THEN
                Ok(LambdaExpr("__x", None, LambdaExpr("__xs", None,
                       AddExpr(ListExpr(<<NamedExpr("__x")>>), "+", NamedExpr("__xs")))), idx)
            ELSE Ok(node, idx)
        ELSE Fail("ValueError: Runtime Error: Var not found", idx)
    ELSE IF k = "ValueExpr" THEN Ok(node, idx)
    ELSE IF k = "ListExpr" THEN
        LET r == EvalItems(node.elements, 1, globals, idx)
        IN  IF r.err # "" THEN Fail(r.err, r.idx)
            ELSE Ok([node EXCEPT !.elements = r.t], r.idx)
    ELSE IF k = "RecordExpr" THEN
        LET r == EvalItems([i \in DOMAIN node.fields |-> node.fields[i].v], 1, globals, idx)
        IN  IF r.err # "" THEN Fail(r.err, r.idx)
            ELSE Ok([node EXCEPT !.fields = [i \in DOMAIN node.fields |->
                                   Entry(node.fields[i].label, r.t[i])]], r.idx)
    ELSE Ok(None, idx)

\* self.visit on each of items from the i-th on, in order
EvalItems(items, i, globals, idx) ==
    IF i > Len(items) THEN [err |-> "", t |-> <<>>, idx |-> idx]
    ELSE LET h == EvalExpr(items[i], globals, idx)
             r == EvalItems(items, i + 1, globals, h.idx)
         IN  IF h.err # "" THEN [err |-> h.err, t |-> <<>>, idx |-> h.idx]
             ELSE IF r.err # "" THEN r
             ELSE [err |-> "", t |-> <<h.t>> \o r.t, idx |-> r.idx]

\* NodeVisitor.generic_visit of the Program by the evaluator: each
\* statement that is an ASTNode is visited; an element that is a list is
\* passed over.  Returns [err, globals, log, idx], log the results logged.
RECURSIVE EvalStatements(_, _, _, _)
EvalStatements(items, globals, log, idx) ==
    IF items = <<>> THEN [err |-> "", globals |-> globals, log |-> log, idx |-> idx]
    ELSE
    LET node == Head(items)
        eval == EvalExpr(IF node.k = "InstanceEnvStmt" THEN node.inst_expr ELSE node.expr,
                         globals, idx)
    IN  IF ~IsASTNode(node) \/ node.k \notin {"AssignStmt", "ExprStmt", "InstanceEnvStmt"}
        THEN EvalStatements(Tail(items), globals, log, idx)
        ELSE IF eval.err # ""
        THEN [err |-> eval.err, globals |-> globals, log |-> log, idx |-> eval.idx]
        ELSE IF node.k = "AssignStmt"
        THEN EvalStatements(Tail(items), DictSet(globals, node.name, eval.t),
                            Append(log, eval.t), eval.idx)
        ELSE IF node.k = "ExprStmt"
        THEN EvalStatements(Tail(items), globals, Append(log, eval.t), eval.idx)
        ELSE EvalStatements(Tail(items), globals, log, eval.idx)

\* main.py: interpreter = InterpreterVisitor(); interpreter.visit(tree)
Interpret(program, idx) == EvalStatements(program.statements, <<>>, <<>>, idx)


(***************************************************************************)
(* The whole pipeline of main.py on bounded programs: sequences of at most *)
(* MaxPipelineStmts statements of a pool with a global assigned twice at   *)
(* two types, a function that reads it, a type lambda with a trait bound,  *)
(* its application to a type, an instance and a division by zero.          *)
(***************************************************************************)
MaxPipelineStmts == 4

PipelineStmtPool ==
    <<AssignStmt("x", ValueExpr("int", 1)),
      AssignStmt("x", ValueExpr("str", "s")),
      AssignStmt("f", LambdaExpr("y", IntType,
                          AddExpr(NamedExpr("x"), "+", NamedExpr("y")))),
      ExprStmt(AppExpr(NamedExpr("f"), ValueExpr("int", 1))),
      AssignStmt("g", TypeLambdaExpr("a",
                          LambdaExpr("v", NamedType("a"), NamedExpr("v")), <<"Show">>)),
      ExprStmt(AppExpr(TypeAppExpr(NamedExpr("g"), IntType), ValueExpr("int", 1))),
      ImplStmt("Show", IntType,
               <<AssignItem("show", LambdaExpr("n", IntType, ValueExpr("str", "i")))>>),
      ExprStmt(BinExpr("MulExpr", ValueExpr("int", 7), "/", ValueExpr("int", 0)))>>

InitPipeline ==
    /\ pc = "desugar"
    /\ \E n \in 0..MaxPipelineStmts :
          \E choice \in [1..n -> DOMAIN PipelineStmtPool] :
             parsed = Program([i \in 1..n |-> PipelineStmtPool[choice[i]]])
    /\ tree = parsed
    /\ result = None
    /\ solver_temp_name_idx = 0
    /\ checker_temp_name_idx = 0
    /\ interp_temp_name_idx = 0

\* main.py: dispatcher = DispatcherVisitor(); tree = dispatcher.visit(tree)
DispatchPass ==
    /\ pc = "checked"
    /\ \E r \in {Dispatch(tree)} :
           IF r.err # ""
           THEN /\ pc' = "error"
                /\ result' = Error(IF r.err \in {"KeyError", "AttributeError"}
                                   THEN r.err ELSE "TypeError", r.err)
                /\ tree' = tree
           ELSE /\ pc' = "dispatched"
                /\ result' = r.t
                /\ tree' = r.t
    /\ UNCHANGED <<parsed, solver_temp_name_idx, checker_temp_name_idx,
                   interp_temp_name_idx>>

\* interpreter.visit(tree) reached although an earlier stage has raised
EvalPassAfterError ==
    /\ pc \in {"dispatched", "error"}
    /\ \E r \in {Interpret(tree, interp_temp_name_idx)} :
           /\ IF r.err # ""
              THEN /\ pc' = "runtime_error"
                   /\ result' = Error("Exception", r.err)
              ELSE /\ pc' = "done"
                   /\ result' = r.log
           /\ interp_temp_name_idx' = r.idx
    /\ UNCHANGED <<parsed, tree, solver_temp_name_idx, checker_temp_name_idx>>

\* main.py: interpreter = InterpreterVisitor(); interpreter.visit(tree)
EvalPass ==
    /\ pc = "dispatched"
    /\ \E r \in {Interpret(tree, interp_temp_name_idx)} :
           /\ IF r.err # ""
              THEN /\ pc' = "runtime_error"
                   /\ result' = Error("Exception", r.err)
              ELSE /\ pc' = "done"
                   /\ result' = r.log
           /\ interp_temp_name_idx' = r.idx
    /\ UNCHANGED <<parsed, tree, solver_temp_name_idx, checker_temp_name_idx>>

NextPipeline == DesugarPass \/ ResolvePass \/ CheckPass \/ DispatchPass \/ EvalPass

SpecPipeline == InitPipeline /\ [][NextPipeline]_vars


\* The statement that last assigned name before statement i (0 for none).
LastAssign(stmts, name, i) ==
    IF \E j \in 1..(i - 1) : stmts[j].k = "AssignStmt" /\ stmts[j].name = name
    THEN CHOOSE j \in 1..(i - 1) :
            /\ stmts[j].k = "AssignStmt" /\ stmts[j].name = name
            /\ \A h \in (j + 1)..(i - 1) :
                  ~(stmts[h].k = "AssignStmt" /\ stmts[h].name = name)
    ELSE 0

\* The trait bounds of the type of expression func in statement i of the
\* parsed program: those of the type lambda it is, or names.
BoundsOf(stmts, func, i) ==
    IF func.k = "TypeLambdaExpr" THEN func.trait_bounds
    ELSE IF func.k = "NamedExpr" /\ LastAssign(stmts, func.name, i) # 0
         THEN LET e == stmts[LastAssign(stmts, func.name, i)].expr
              IN  IF e.k = "TypeLambdaExpr" THEN e.trait_bounds ELSE <<>>
    ELSE <<>>

\* Somewhere in node, a part of statement i, a type application
\* TypeApp(f, S) has a bound T of f's type for which the program declares
\* no instance `impl T for S`.
RECURSIVE HasUnsatisfiedBound(_, _, _)
HasUnsatisfiedBound(stmts, node, i) ==
    \/ /\ node.k = "TypeAppExpr"
       /\ \E b \in DOMAIN BoundsOf(stmts, node.func, i) :
             ~\E j \in DOMAIN stmts :
                 /\ stmts[j].k = "ImplStmt"
                 /\ stmts[j].name = BoundsOf(stmts, node.func, i)[b]
                 /\ TypeEq(stmts[j].type_param, node.type_arg)
    \/ \E c \in DOMAIN ChildNodes(node) : HasUnsatisfiedBound(stmts, ChildNodes(node)[c], i)

\* C3: the type checker accepts a program only if every type application
\* TypeApp(f, S) in it, f of a type with trait bounds, has an instance of
\* each bound for S.
C3_BoundsCheckedByChecker ==
    pc = "checked" =>
        \A i \in DOMAIN parsed.statements :
            ~HasUnsatisfiedBound(parsed.statements, parsed.statements[i], i)

MaxDispatchStmts == 3

ShowFieldType == ForAllType("a", ArrowType(NamedType("a"), StringType), <<"Show">>)

ShowField == WithCheckedType(NamedExpr("show"), ShowFieldType)

DispatchStmtPool ==
    <<\* trait Show a { show: a -> String; }
      TraitFieldEnvStmt("show", "Show", ShowFieldType),
      \* impl Show for Int {..}
      InstanceEnvStmt("Show", IntType, NamedExpr("__Show_inst_0")),
      \* show @Int;
      ExprStmt(TypeAppExpr(ShowField, IntType)),
      \* show;
      ExprStmt(NamedExpr("show")),
      \* (if true then show else show) @Int;
      ExprStmt(TypeAppExpr(
          WithCheckedType(IfExpr(ValueExpr("bool", TRUE), NamedExpr("show"),
                                 NamedExpr("show")),
                          ShowFieldType),
          IntType)),
      \* h = \a impl Show. \x: a. (show @a) x;
      AssignStmt("h", TypeLambdaExpr("a",
          LambdaExpr("x", NamedType("a"),
              AppExpr(TypeAppExpr(ShowField, NamedType("a")), NamedExpr("x"))),
          <<"Show">>)),
      \* h @Int;
      ExprStmt(TypeAppExpr(WithCheckedType(NamedExpr("h"), ShowFieldType), IntType)),
      \* k = \a impl Show. {f = \a impl Show. show @a, g = show @a};
      AssignStmt("k", TypeLambdaExpr("a",
          RecordExpr(<<Entry("f", TypeLambdaExpr("a",
                                      TypeAppExpr(ShowField, NamedType("a")),
                                      <<"Show">>)),
                       Entry("g", TypeAppExpr(ShowField, NamedType("a")))>>),
          <<"Show">>)),
      \* n = \show: Int. show;
      AssignStmt("n", LambdaExpr("show", IntType, NamedExpr("show"))),
      \* m = \a impl Show+Eq. \x: a. x;
      AssignStmt("m", TypeLambdaExpr("a",
          LambdaExpr("x", NamedType("a"), NamedExpr("x")), <<"Show", "Eq">>)),
      \* impl Eq for Int {..}
      InstanceEnvStmt("Eq", IntType, NamedExpr("__Eq_inst_1")),
      \* m @Int;
      ExprStmt(TypeAppExpr(
          WithCheckedType(NamedExpr("m"),
              ForAllType("a", ArrowType(NamedType("a"), NamedType("a")),
                         <<"Show", "Eq">>)),
          IntType)),
      \* show = 1;
      AssignStmt("show", ValueExpr("int", 1)),
      \* \show. show;
      ExprStmt(TypeLambdaExpr("show", NamedExpr("show"), <<>>))>>

InitDispatch ==
    /\ pc = "checked"
    /\ \E n \in 0..MaxDispatchStmts :
          \E choice \in [1..n -> DOMAIN DispatchStmtPool] :
             parsed = Program([i \in 1..n |-> DispatchStmtPool[choice[i]]])
    /\ tree = parsed
    /\ result = None
    /\ solver_temp_name_idx = 0
    /\ checker_temp_name_idx = 0
    /\ interp_temp_name_idx = 0

NextDispatch == DispatchPass

SpecDispatch == InitDispatch /\ [][NextDispatch]_vars


\* The names that are trait fields after the first i statements: a
\* TraitFieldEnv registers its field, an Assign rebinds its name.
RECURSIVE FieldsAfter(_, _)
FieldsAfter(stmts, i) ==
    IF i = 0 THEN {}
    ELSE IF stmts[i].k = "TraitFieldEnvStmt"
         THEN FieldsAfter(stmts, i - 1) \cup {stmts[i].field_name}
    ELSE IF stmts[i].k = "AssignStmt" THEN FieldsAfter(stmts, i - 1) \ {stmts[i].name}
    ELSE FieldsAfter(stmts, i - 1)

\* node holds a NamedExpr whose name is one of fields and is bound by no
\* Lambda, TypeLambda or Assign between the node and it.
RECURSIVE HasBareField(_, _)
HasBareField(node, fields) ==
    IF ~IsASTNode(node) \/ node.k \in TypeKinds THEN FALSE
    ELSE IF node.k = "NamedExpr" THEN node.name \in fields
    ELSE IF node.k \in {"LambdaExpr", "TypeLambdaExpr"}
         THEN HasBareField(node.body, fields \ {node.param_name})
    ELSE IF node.k = "AssignStmt" THEN HasBareField(node.expr, fields \ {node.name})
    ELSE \E c \in DOMAIN ChildNodes(node) : HasBareField(ChildNodes(node)[c], fields)

\* C5: the dispatch pass either raises 'Unsolved trait field accessor' or
\* returns a tree in which no NamedExpr is, at its position, a trait field.
C5_DispatchComplete ==
    /\ pc = "dispatched" =>
          \A i \in DOMAIN tree.statements :
              ~HasBareField(tree.statements[i], FieldsAfter(tree.statements, i - 1))
    /\ pc = "error" => result.msg = "Unsolved trait field accessor"

\* The head of a chain of applications: e for App(..App(e, d1).., dn).
RECURSIVE AppHead(_)
AppHead(node) == IF node.k = "AppExpr" THEN AppHead(node.func) ELSE node

\* The parameters of the n lambdas on top of node, outermost first.
RECURSIVE LambdaParams(_, _)
LambdaParams(node, n) ==
    IF n = 0 \/ node.k # "LambdaExpr" THEN <<>>
    ELSE <<node.param_name>> \o LambdaParams(node.body, n - 1)

\* What is below the n lambdas on top of node.
RECURSIVE LambdaBody(_, _)
LambdaBody(node, n) ==
    IF n = 0 \/ node.k # "LambdaExpr" THEN node ELSE LambdaBody(node.body, n - 1)

\* The names __dictp_<trait>_<k> a dictionary parameter for trait can have.
DictParamNames(trait) ==
    {"__dictp_" \o trait \o "_" \o ToString(n) : n \in 1..(4 * MaxDispatchStmts)}

\* GetInst inside TypeLambda(a, bounds, _): for each bound the dictionary
\* parameter among params that was made for it, registered for the type a.
RECURSIVE ScopedInst(_, _, _, _, _)
ScopedInst(get_inst, bounds, i, param_name, params) ==
    IF i > Len(bounds) THEN get_inst
    ELSE LET made == {j \in DOMAIN params : params[j] \in DictParamNames(bounds[i])}
         IN  ScopedInst(IF made = {} THEN get_inst
                        ELSE InstSet(get_inst, bounds[i], NamedType(param_name),
                                     NamedExpr(params[CHOOSE j \in made : TRUE])),
                        bounds, i + 1, param_name, params)

\* out is what dispatch returned for inp, and every TypeApp(NamedExpr f, S)
\* of inp with f a key of which_trait at its position came back as
\* FieldAccess(get_inst[(which_trait[f], S)], f); which_trait and get_inst
\* are the tables in force at inp, scoped by the binders around it.
RECURSIVE Specialized(_, _, _, _)
Specialized(inp, out, which_trait, get_inst) ==
    IF ~IsASTNode(inp) \/ inp.k \in TypeKinds THEN TRUE
    ELSE IF inp.k = "TypeAppExpr" /\ inp.func.k = "NamedExpr"
            /\ DictHas(which_trait, inp.func.name) THEN
        LET inst_expr == InstGet(get_inst, DictGet(which_trait, inp.func.name),
                                 inp.type_arg)
        IN  inst_expr.err = "" => out = FieldAccessExpr(inst_expr.t, inp.func.name)
    ELSE IF inp.k = "TypeAppExpr" THEN
        AppHead(out).k = "TypeAppExpr"
            /\ Specialized(inp.func, AppHead(out).func, which_trait, get_inst)
    ELSE IF inp.k = "LambdaExpr" THEN
        out.k = "LambdaExpr"
            /\ Specialized(inp.body, out.body, DictPop(which_trait, inp.param_name),
                           get_inst)
    ELSE IF inp.k = "TypeLambdaExpr" THEN
        out.k = "TypeLambdaExpr"
            /\ Specialized(inp.body, LambdaBody(out.body, Len(inp.trait_bounds)),
                           DictPop(which_trait, inp.param_name),
                           ScopedInst(get_inst, inp.trait_bounds, 1, inp.param_name,
                               LambdaParams(out.body, Len(inp.trait_bounds))))
    ELSE IF inp.k = "AssignStmt" THEN
        out.k = "AssignStmt"
            /\ Specialized(inp.expr, out.expr, DictPop(which_trait, inp.name), get_inst)
    ELSE
        /\ out.k = inp.k
        /\ \A c \in DOMAIN ChildNodes(inp) :
              Specialized(ChildNodes(inp)[c], ChildNodes(out)[c], which_trait, get_inst)

\* Specialized for the statements from the i-th on, the tables growing with
\* the TraitFieldEnv and InstanceEnv statements passed.
RECURSIVE StatementsSpecialized(_, _, _, _, _)
StatementsSpecialized(inps, outs, i, which_trait, get_inst) ==
    IF i > Len(inps) THEN TRUE
    ELSE
        /\ Specialized(inps[i], outs[i], which_trait, get_inst)
        /\ StatementsSpecialized(inps, outs, i + 1,
               IF inps[i].k = "TraitFieldEnvStmt"
               THEN DictSet(which_trait, inps[i].field_name, inps[i].trait_name)
               ELSE IF inps[i].k = "AssignStmt" THEN DictPop(which_trait, inps[i].name)
               ELSE which_trait,
               IF inps[i].k = "InstanceEnvStmt"
               THEN InstSet(get_inst, inps[i].name, inps[i].type_param,
                            inps[i].inst_expr)
               ELSE get_inst)

\* C6: in the tree dispatch returns, every TypeApp(NamedExpr f, S) with f
\* a trait field at its position has become FieldAccess(d, f), d the
\* dictionary registered for (which_trait[f], S): the instance's, or for S
\* a bounded type parameter the dictionary parameter of the TypeLambda
\* around it.
C6_TraitFieldSpecialized ==
    pc = "dispatched" =>
        StatementsSpecialized(parsed.statements, tree.statements, 1, <<>>, <<>>)

\* The arguments of a chain of applications, first applied first.
RECURSIVE AppArgs(_)
AppArgs(node) ==
    IF node.k = "AppExpr" THEN Append(AppArgs(node.func), node.arg) ELSE <<>>

\* The dictionaries the InstanceEnv statements of node, at any depth,
\* register for (trait, type).
RECURSIVE InstancesIn(_, _, _)
InstancesIn(node, trait, type) ==
    (IF node.k = "InstanceEnvStmt" /\ node.name = trait /\ TypeEq(node.type_param, type)
     THEN {node.inst_expr} ELSE {})
    \cup UNION {InstancesIn(ChildNodes(node)[c], trait, type) : c \in DOMAIN ChildNodes(node)}

\* In node, a part of statement i of the dispatched tree root, every
\* TypeApp(f, S) whose f has bounds B1..Bm, each with an instance for S,
\* is applied to the dictionaries of B1, .., Bm, in this order.
RECURSIVE DictionariesApplied(_, _, _, _)
DictionariesApplied(node, stmts, i, root) ==
    IF ~IsASTNode(node) \/ node.k \in TypeKinds THEN TRUE
    ELSE IF AppHead(node).k = "TypeAppExpr" THEN
        LET head == AppHead(node)
            bounds == BoundsOf(stmts, head.func, i)
        IN  /\ (\A b \in DOMAIN bounds : InstancesIn(root, bounds[b], head.type_arg) # {})
                => /\ Len(AppArgs(node)) >= Len(bounds)
                   /\ \A b \in DOMAIN bounds :
                         AppArgs(node)[b] \in InstancesIn(root, bounds[b], head.type_arg)
            /\ DictionariesApplied(head.func, stmts, i, root)
            /\ \A a \in DOMAIN AppArgs(node) :
                  DictionariesApplied(AppArgs(node)[a], stmts, i, root)
    ELSE \A c \in DOMAIN ChildNodes(node) :
            DictionariesApplied(ChildNodes(node)[c], stmts, i, root)

C11_ResolveFixpoint ==
    pc \in {"resolved_again", "error_again"} => result = tree

\* reached: a program with aliases, a type application among them and a
\* use of an alias in a term, resolved twice
C11_Witness ==
    /\ pc = "resolved_again"
    /\ \E i, j \in DOMAIN parsed.statements :
          /\ parsed.statements[i].k = "TypeAssignStmt"
          /\ parsed.statements[i].type.k = "AppType"
          /\ parsed.statements[j].k = "AssignStmt"
          /\ parsed.statements[j].name = "h"
    /\ tree # parsed


\* The TypeAssign statement that last bound name before statement i (0 for
\* none).
LastTypeAssign(stmts, name, i) ==
    IF \E j \in 1..(i - 1) : stmts[j].k = "TypeAssignStmt" /\ stmts[j].name = name
    THEN CHOOSE j \in 1..(i - 1) :
            /\ stmts[j].k = "TypeAssignStmt" /\ stmts[j].name = name
            /\ \A h \in (j + 1)..(i - 1) :
                  ~(stmts[h].k = "TypeAssignStmt" /\ stmts[h].name = name)
    ELSE 0

\* The type application App(F, A) that statement i binds an alias to has a
\* function that is no unbounded ForAll: a built-in type, or an alias
\* written as a ForAll with one or more trait bounds.
AppliesNonForAll(stmts, i) ==
    /\ stmts[i].k = "TypeAssignStmt"
    /\ stmts[i].type.k = "AppType"
    /\ stmts[i].type.func.k = "NamedType"
    /\ \/ is_built_in_type(stmts[i].type.func)
       \/ LET j == LastTypeAssign(stmts, stmts[i].type.func.name, i)
          IN  /\ j # 0
              /\ stmts[j].type.k = "ForAllType"
              /\ stmts[j].type.trait_bounds # <<>>

\* C12: the resolver succeeds on a type application App(F, A) only if F
\* resolves to a ForAll with no trait bounds; for F a non-ForAll type or a
\* ForAll with bounds it raises the type error.
C12_TypeAppNeedsUnboundedForAll ==
    pc = "resolved" =>
        \A i \in DOMAIN parsed.statements : ~AppliesNonForAll(parsed.statements, i)


(***************************************************************************)
(* The passes up to the type checker, on bounded programs: applications    *)
(* of a function and of a polymorphic function to a literal, annotations   *)
(* that hold and that fail (of a literal, of a record against an alias),   *)
(* a trait and impls of it with and without its field.                     *)
(***************************************************************************)
MaxCheckStmts == 3

CheckStmtPool ==
    <<\* id = \a. \x: a. x;
      AssignStmt("id", TypeLambdaExpr("a",
                           LambdaExpr("x", NamedType("a"), NamedExpr("x")), <<>>)),
      \* id 1;
      ExprStmt(AppExpr(NamedExpr("id"), ValueExpr("int", 1))),
      \* f = \y: Int. y;
      AssignStmt("f", LambdaExpr("y", IntType, NamedExpr("y"))),
      \* f 1;
      ExprStmt(AppExpr(NamedExpr("f"), ValueExpr("int", 1))),
      \* f true;
      ExprStmt(AppExpr(NamedExpr("f"), ValueExpr("bool", TRUE))),
      \* trait Show a { show: a -> String; }
      ShowTrait,
      \* impl Show for Int { show = \n: Int. "i"; }
      ImplStmt("Show", IntType,
               <<AssignItem("show", LambdaExpr("n", IntType, ValueExpr("str", "i")))>>),
      \* impl Show for Int { }
      ImplStmt("Show", IntType, <<>>),
      \* (1 : Int);
      ExprStmt(TypeAnnotatedExpr(ValueExpr("int", 1), IntType)),
      \* (1 : Bool);
      ExprStmt(TypeAnnotatedExpr(ValueExpr("int", 1), BoolType)),
      \* type R = {f: Int};
      TypeAssignStmt("R", RecordType(<<Entry("f", IntType)>>)),
      \* ({f = 1} : R);
      ExprStmt(TypeAnnotatedExpr(RecordExpr(<<Entry("f", ValueExpr("int", 1))>>),
                                 NamedType("R"))),
      \* ({f = 1, g = 1} : R);
      ExprStmt(TypeAnnotatedExpr(RecordExpr(<<Entry("f", ValueExpr("int", 1)),
                                              Entry("g", ValueExpr("int", 1))>>),
                                 NamedType("R"))),
      \* (id : forall a. a -> a);
      ExprStmt(TypeAnnotatedExpr(NamedExpr("id"),
          ForAllType("a", ArrowType(NamedType("a"), NamedType("a")), <<>>))),
      \* k = \a. \x: a. \a. x;
      AssignStmt("k", TypeLambdaExpr("a",
          LambdaExpr("x", NamedType("a"), TypeLambdaExpr("a", NamedExpr("x"), <<>>)),
          <<>>)),
      \* r = k @Int 1 @Bool;
      AssignStmt("r", TypeAppExpr(AppExpr(TypeAppExpr(NamedExpr("k"), IntType),
                                          ValueExpr("int", 1)),
                                  BoolType)),
      \* y;
      ExprStmt(NamedExpr("y")),
      \* t = \x: Int. {f = \x: Bool. x, g = x};
      AssignStmt("t", LambdaExpr("x", IntType,
          RecordExpr(<<Entry("f", LambdaExpr("x", BoolType, NamedExpr("x"))),
                       Entry("g", NamedExpr("x"))>>)))>>

InitCheck ==
    /\ pc = "desugar"
    /\ \E n \in 0..MaxCheckStmts :
          \E choice \in [1..n -> DOMAIN CheckStmtPool] :
             parsed = Program([i \in 1..n |-> CheckStmtPool[choice[i]]])
    /\ tree = parsed
    /\ result = None
    /\ solver_temp_name_idx = 0
    /\ checker_temp_name_idx = 0
    /\ interp_temp_name_idx = 0

NextCheck == DesugarPass \/ ResolvePass \/ CheckPass

SpecCheck == InitCheck /\ [][NextCheck]_vars


\* Statement i applies, to a literal, a name whose last assignment is
\* written as an unbounded type lambda over a lambda: a function of type
\* ForAll(v, [], Arrow(t1, t2)).
InferableApp(stmts, i) ==
    /\ stmts[i].k = "ExprStmt"
    /\ stmts[i].expr.k = "AppExpr"
    /\ stmts[i].expr.func.k = "NamedExpr"
    /\ stmts[i].expr.arg.k = "ValueExpr"
    /\ LET j == LastAssign(stmts, stmts[i].expr.func.name, i)
       IN  /\ j # 0
           /\ stmts[j].expr.k = "TypeLambdaExpr"
           /\ stmts[j].expr.trait_bounds = <<>>
           /\ stmts[j].expr.body.k = "LambdaExpr"

\* C13: an application App(f, a) of a function of type
\* ForAll(v, [], Arrow(t1, t2)) is checked by inferring v from the type of
\* a; 'Arrow type expected' is raised only for an application whose
\* function is neither an Arrow nor such a ForAll.
C13_FirstArgumentInference ==
    (pc = "error" /\ result.msg = "Arrow type expected") =>
        \E i \in DOMAIN parsed.statements :
            /\ parsed.statements[i].k = "ExprStmt"
            /\ parsed.statements[i].expr.k = "AppExpr"
            /\ ~InferableApp(parsed.statements, i)
            /\ LET j == LastAssign(parsed.statements,
                                   parsed.statements[i].expr.func.name, i)
               IN  j # 0 /\ parsed.statements[j].expr.k # "LambdaExpr"


\* The type of a literal, or of a record of literals.
RECURSIVE LiteralType(_)
LiteralType(e) ==
    IF e.k = "ValueExpr"
    THEN (IF e.value.py = "bool" THEN BoolType
          ELSE IF e.value.py = "int" THEN IntType ELSE StringType)
    ELSE RecordType([f \in DOMAIN e.fields |->
                        Entry(e.fields[f].label, LiteralType(e.fields[f].v))])

\* Statement i annotates a literal with a type, an alias standing for the
\* type it was last bound to, that is not the literal's type.
AnnotationFails(stmts, i) ==
    /\ stmts[i].k = "ExprStmt"
    /\ stmts[i].expr.k = "TypeAnnotatedExpr"
    /\ stmts[i].expr.expr.k \in {"ValueExpr", "RecordExpr"}
    /\ LET S == stmts[i].expr.type
           j == IF S.k = "NamedType" THEN LastTypeAssign(stmts, S.name, i) ELSE 0
       IN  ~TypeEq(LiteralType(stmts[i].expr.expr), IF j # 0 THEN stmts[j].type ELSE S)

\* Statement i is an Impl of a trait declared before it whose fields are
\* not the fields of the trait.
ImplMismatch(stmts, i) ==
    /\ stmts[i].k = "ImplStmt"
    /\ \E j \in 1..(i - 1) :
          /\ stmts[j].k = "TraitStmt"
          /\ stmts[j].name = stmts[i].name
          /\ {stmts[i].items[f].name : f \in DOMAIN stmts[i].items}
                # {stmts[j].items[f].name : f \in DOMAIN stmts[j].items}

\* Annotated(e, S) is accepted exactly when the type of e equals S.
AnnotationStrict ==
    /\ pc = "checked" =>
          \A i \in DOMAIN parsed.statements : ~AnnotationFails(parsed.statements, i)
    /\ (pc = "error" /\ result.msg = "Annotated type") =>
          \E i \in DOMAIN parsed.statements : AnnotationFails(parsed.statements, i)

\* C14: Annotated(e, S) is accepted exactly when the type of e equals S,
\* and so the checker accepts no Impl whose fields are not those of its
\* trait.
C14_AnnotationRejectsBadImpl ==
    /\ AnnotationStrict
    /\ pc = "checked" =>
          \A i \in DOMAIN parsed.statements : ~ImplMismatch(parsed.statements, i)


\* The statements the desugar pass left at one position of the program:
\* the items of a list, or the statement itself.
Emitted(stmt) == IF stmt.k = "list" THEN stmt.items ELSE <<stmt>>

\* What the claim has a trait statement desugar to.
TraitEmission(node) ==
    <<TypeAssignStmt(node.name,
          ForAllType(node.type_params[1],
              RecordType([f \in DOMAIN node.items |->
                             Entry(node.items[f].name, node.items[f].type)]),
              <<>>))>>
    \o [f \in DOMAIN node.items |->
           TraitFieldEnvStmt(node.items[f].name, node.name,
               ForAllType(node.type_params[1], node.items[f].type, <<node.name>>))]

\* C15: a trait statement desugars to one TypeAssign followed by one
\* TraitFieldEnv per field, in declaration order, and nothing else.
C15_TraitEmitsFieldEnv ==
    pc = "desugared" =>
        \A i \in DOMAIN parsed.statements :
            parsed.statements[i].k = "TraitStmt" =>
                Emitted(tree.statements[i]) = TraitEmission(parsed.statements[i])


\* The statements emitted for the Impl statement impl are an Assign of the
\* annotated record of its fields followed by the InstanceEnv of the same
\* name, the name carrying the index n.
ImplEmission(emitted, impl, n) ==
    /\ Len(emitted) = 2
    /\ emitted[1].k = "AssignStmt"
    /\ emitted[1].name = "__" \o impl.name \o "_inst_" \o ToString(n)
    /\ emitted[1].expr.k = "TypeAnnotatedExpr"
    /\ emitted[1].expr.type = AppType(NamedType(impl.name), impl.type_param)
    /\ emitted[1].expr.expr.k = "RecordExpr"
    /\ {e.label : e \in {emitted[1].expr.expr.fields[f] :
                            f \in DOMAIN emitted[1].expr.expr.fields}}
          = {impl.items[f].name : f \in DOMAIN impl.items}
    /\ \A f \in DOMAIN emitted[1].expr.expr.fields :
          \E g \in DOMAIN impl.items :
              /\ impl.items[g].name = emitted[1].expr.expr.fields[f].label
              /\ impl.items[g].value = emitted[1].expr.expr.fields[f].v
    /\ emitted[2] = InstanceEnvStmt(impl.name, impl.type_param,
                                    NamedExpr(emitted[1].name))

HasDuplicateField(stmt) ==
    /\ stmt.k \in {"TraitStmt", "StructStmt", "ImplStmt"}
    /\ \E f, g \in DOMAIN stmt.items : f # g /\ stmt.items[f].name = stmt.items[g].name

\* C17: the desugar pass returns no statements for a program in which a
\* Trait, a Struct or an Impl uses a field name twice: it raises an error.
C17_DuplicateFieldsRejected ==
    pc = "desugared" =>
        \A i \in DOMAIN parsed.statements : ~HasDuplicateField(parsed.statements[i])

(***************************************************************************)
(* The evaluator alone: main.py's interpreter.visit(tree) on a program of  *)
(* one expression statement, either a / b or a % b over the integer        *)
(* literals of -MaxLit..MaxLit (a negative literal is parsed as NegExpr of *)
(* the positive one), or l || r, l && r over the operands of LogicOperands.*)
(* The last operand is (\y: Bool. \Int: Bool. y) (\w: Bool. \v: Int. v): *)
(* its substitution finds the name Int in the argument and draws a         *)
(* temporary name for the parameter Int.                                   *)
(***************************************************************************)
MaxLit == 3

Lit(n) == IF n < 0 THEN [k |-> "NegExpr", expr |-> ValueExpr("int", -n)]
          ELSE ValueExpr("int", n)

LogicOperands ==
    <<ValueExpr("bool", TRUE),
      ValueExpr("bool", FALSE),
      BinExpr("RelExpr", ValueExpr("int", 1), "==", ValueExpr("int", 1)),
      BinExpr("RelExpr", ValueExpr("int", 1), "==", ValueExpr("int", 2)),
      NamedExpr("x"),
      BinExpr("RelExpr",
              BinExpr("MulExpr", ValueExpr("int", 1), "/", ValueExpr("int", 0)),
              "==", ValueExpr("int", 1)),
      AppExpr(LambdaExpr("y", BoolType, LambdaExpr("Int", BoolType, NamedExpr("y"))),
              LambdaExpr("w", BoolType, LambdaExpr("v", IntType, NamedExpr("v"))))>>

InitEval ==
    /\ pc = "dispatched"
    /\ \/ \E a \in -MaxLit..MaxLit, b \in -MaxLit..MaxLit, op \in {"/", "%"} :
              parsed = Program(<<ExprStmt(BinExpr("MulExpr", Lit(a), op, Lit(b)))>>)
       \/ \E i \in DOMAIN LogicOperands, j \in DOMAIN LogicOperands :
          \E kind \in {"LogicOrExpr", "LogicAndExpr"} :
              parsed = Program(<<ExprStmt([k |-> kind, left |-> LogicOperands[i],
                                           right |-> LogicOperands[j]])>>)
    /\ tree = parsed
    /\ result = None
    /\ solver_temp_name_idx = 0
    /\ checker_temp_name_idx = 0
    /\ interp_temp_name_idx = 0

NextEval == EvalPass

SpecEval == InitEval /\ [][NextEval]_vars

\* The integer a literal of InitEval stands for
LitValue(e) == IF e.k = "NegExpr" THEN -e.expr.value.v ELSE e.value.v

\* The quotient of a by b rounded toward zero
TruncDiv(a, b) ==
    LET Abs(n) == IF n < 0 THEN -n ELSE n
        q == Abs(a) \div Abs(b)
    IN  IF (a < 0) = (b < 0) THEN q ELSE -q

\* C18: for integer literals a and b, `a / b` with b # 0 evaluates to the
\* quotient rounded toward zero, and `a / 0` and `a % 0` raise the runtime
\* error 'Division by zero' instead of producing a value.
C18_DivisionTruncates ==
    LET e == parsed.statements[1].expr
        a == LitValue(e.left)
        b == LitValue(e.right)
    IN  pc \in {"done", "runtime_error"} /\ e.k = "MulExpr" =>
            IF b = 0
            THEN pc = "runtime_error"
                 /\ result = Error("Exception", "ValueError: Runtime Error: Division by zero")
            ELSE pc = "done"
                 /\ (e.op = "/" => result = <<ValueExpr("int", TruncDiv(a, b))>>)

\* The zero-divisor half of C18
DivisionByZeroRaises ==
    LET e == parsed.statements[1].expr
    IN  pc \in {"done", "runtime_error"} /\ e.k = "MulExpr" /\ LitValue(e.right) = 0 =>
            /\ pc = "runtime_error"
            /\ result = Error("Exception", "ValueError: Runtime Error: Division by zero")

\* `a / b` is the floor of the quotient
DivisionFloors ==
    LET e == parsed.statements[1].expr
        a == LitValue(e.left)
        b == LitValue(e.right)
    IN  pc = "done" /\ e.k = "MulExpr" /\ e.op = "/" =>
            /\ result[1].value.v * b <= a \/ b < 0
            /\ result[1].value.v * b >= a \/ b > 0
            /\ (a - result[1].value.v * b) < (IF b < 0 THEN -b ELSE b)
            /\ (result[1].value.v * b - a) < (IF b < 0 THEN -b ELSE b)

IsLogicExpr(e) == e.k \in {"LogicOrExpr", "LogicAndExpr"}

\* The literal that decides e alone: true for ||, false for &&
ShortLiteral(e) == ValueExpr("bool", e.k = "LogicOrExpr")

IsBoolLiteral(e) == e.k = "ValueExpr" /\ e.value.py = "bool"

\* C19: when the left operand of || evaluates to the literal true, or the
\* left operand of && to the literal false, the statement's value is that
\* literal and nothing of the right operand has happened (no runtime error
\* of it is raised, no temporary name of it is drawn); when both operands
\* evaluate to Bool literals the value is the literal of their or / and.
C19_ShortCircuit ==
    LET e == parsed.statements[1].expr
        left_eval == EvalExpr(e.left, <<>>, 0)
        right_eval == EvalExpr(e.right, <<>>, left_eval.idx)
    IN  pc \in {"done", "runtime_error"} /\ IsLogicExpr(e) /\ left_eval.err = "" =>
            /\ left_eval.t = ShortLiteral(e) =>
                   /\ pc = "done"
                   /\ result = <<ShortLiteral(e)>>
                   /\ interp_temp_name_idx = left_eval.idx
            /\ IsBoolLiteral(left_eval.t) /\ right_eval.err = "" /\ IsBoolLiteral(right_eval.t) =>
                   /\ pc = "done"
                   /\ result = <<ValueExpr("bool",
                                   IF e.k = "LogicOrExpr"
                                   THEN left_eval.t.value.v \/ right_eval.t.value.v
                                   ELSE left_eval.t.value.v /\ right_eval.t.value.v)>>

\* A left operand that is not a literal evaluates to the deciding literal,
\* the right operand alone raises 'Division by zero', and the statement has
\* been evaluated to the literal
C19_Witness ==
    LET e == parsed.statements[1].expr
    IN  /\ pc = "done"
        /\ IsLogicExpr(e)
        /\ e.left.k = "RelExpr"
        /\ EvalExpr(e.right, <<>>, 0).err = "ValueError: Runtime Error: Division by zero"
        /\ result = <<ShortLiteral(e)>>

\* Both operands evaluate to Bool literals, neither of them deciding alone
C19_BothLiterals ==
    LET e == parsed.statements[1].expr
    IN  /\ pc = "done"
        /\ IsLogicExpr(e)
        /\ e.left.k = "RelExpr" /\ e.right.k = "RelExpr"
        /\ result = <<ValueExpr("bool", e.k # "LogicOrExpr")>>

\* The right operand alone draws a temporary name
C19_SideEffectSkipped ==
    LET e == parsed.statements[1].expr
    IN  /\ pc = "done"
        /\ IsLogicExpr(e)
        /\ EvalExpr(e.right, <<>>, 0).idx > 0
        /\ result = <<ShortLiteral(e)>>
        /\ interp_temp_name_idx = 0

\* The dispatcher's tables before the i-th statement of stmts is visited
DispatcherBefore(stmts, i) ==
    DispatchItems(SubSeq(stmts, 1, i - 1), 1,
                  [which_trait |-> <<>>, get_inst |-> <<>>, tmp_idx |-> 0])

\* Two dicts with the same items
SameTable(d1, d2) == {d1[i] : i \in DOMAIN d1} = {d2[i] : i \in DOMAIN d2}

\* node binds name, a key of st.which_trait: node is dispatched as it is
\* with name absent from the table, and the table after node is the table
\* before it
ShadowedAndRestored(node, name, st) ==
    LET Compared(r, absent) ==
            /\ r.err = absent.err
            /\ r.t = absent.t
            /\ r.err = "" => SameTable(r.st.which_trait, st.which_trait)
    IN  Compared(DispatchVisit(node, st),
                 DispatchVisit(node, [st EXCEPT !.which_trait = DictPop(@, name)]))

\* The discipline for the statement stmt when it is an Assign of a key
AssignDiscipline(stmt, st) ==
    stmt.k = "AssignStmt" /\ DictHas(st.which_trait, stmt.name) =>
        ShadowedAndRestored(stmt, stmt.name, st)

\* The discipline for the Lambda or TypeLambda a statement holds as its
\* expression, when its parameter is a key
LambdaDiscipline(stmt, st) ==
    LET inner == IF stmt.k = "AssignStmt"
                 THEN [st EXCEPT !.which_trait = DictPop(@, stmt.name)] ELSE st
    IN  /\ stmt.k \in {"AssignStmt", "ExprStmt"}
        /\ stmt.expr.k \in {"LambdaExpr", "TypeLambdaExpr"}
        /\ DictHas(inner.which_trait, stmt.expr.param_name)
        => ShadowedAndRestored(stmt.expr, stmt.expr.param_name, inner)

\* C20: when a Lambda, a TypeLambda or an Assign binds a key n of
\* which_trait, n is absent from the table while the body / right-hand side
\* is dispatched, and after it the table equals the table before it.
C20_ShadowingDiscipline ==
    pc \in {"dispatched", "error"} =>
        \A i \in DOMAIN parsed.statements :
            LET Checked(before) ==
                    before.err = "" =>
                        /\ AssignDiscipline(parsed.statements[i], before.st)
                        /\ LambdaDiscipline(parsed.statements[i], before.st)
            IN  Checked(DispatcherBefore(parsed.statements, i))

\* The Lambda and TypeLambda part of C20
LambdaShadowingDiscipline ==
    pc \in {"dispatched", "error"} =>
        \A i \in DOMAIN parsed.statements :
            LET Checked(before) ==
                    before.err = "" => LambdaDiscipline(parsed.statements[i], before.st)
            IN  Checked(DispatcherBefore(parsed.statements, i))

\* A Lambda and a TypeLambda binding the trait field show have been
\* dispatched, and the bare show after them is still rejected
LambdaShadowingSeen ==
    /\ pc = "error"
    /\ Len(parsed.statements) = 3
    /\ parsed.statements[1].k = "TraitFieldEnvStmt"
    /\ parsed.statements[2].k \in {"AssignStmt", "ExprStmt"}
    /\ parsed.statements[2].expr.k \in {"LambdaExpr", "TypeLambdaExpr"}
    /\ parsed.statements[2].expr.param_name = "show"
    /\ parsed.statements[3] = ExprStmt(NamedExpr("show"))

\* After `show = 1;` the bare trait field show is accepted
AssignUnregisters ==
    /\ pc = "dispatched"
    /\ Len(parsed.statements) = 3
    /\ parsed.statements[1].k = "TraitFieldEnvStmt"
    /\ parsed.statements[2] = AssignStmt("show", ValueExpr("int", 1))
    /\ parsed.statements[3] = ExprStmt(NamedExpr("show"))

\* The TypeLambda with bounds that the statement stmt holds as its
\* expression leaves get_inst as it found it
GetInstRestored(stmt, st) ==
    LET Left(r) == r.err = "" => r.st.get_inst = st.get_inst
    IN  /\ stmt.k \in {"AssignStmt", "ExprStmt"}
        /\ stmt.expr.k = "TypeLambdaExpr"
        /\ Len(stmt.expr.trait_bounds) > 0
        => Left(DispatchVisit(stmt, st))

\* C21: the entries (Bi, a) that dispatch registers in get_inst on entering
\* TypeLambda(a, [B1..Bm], body) exist only while the body is dispatched:
\* after the TypeLambda get_inst equals what it was before it.
C21_DictParamScope ==
    pc \in {"dispatched", "error"} =>
        \A i \in DOMAIN parsed.statements :
            LET Checked(before) ==
                    before.err = "" => GetInstRestored(parsed.statements[i], before.st)
            IN  Checked(DispatcherBefore(parsed.statements, i))

\* An instance registered by an InstanceEnv statement is in force for the
\* statements after it
InstanceKept ==
    /\ pc = "dispatched"
    /\ Len(parsed.statements) = 3
    /\ parsed.statements[1].k = "TraitFieldEnvStmt"
    /\ parsed.statements[2].k = "InstanceEnvStmt"
    /\ parsed.statements[3] = ExprStmt(TypeAppExpr(ShowField, IntType))
    /\ result.statements[3].expr = FieldAccessExpr(NamedExpr("__Show_inst_0"), "show")

\* Inside k = \a impl Show. {f = \a impl Show. show @a, g = show @a} the
\* field g, outside the inner TypeLambda, resolves to the inner dictionary
\* parameter
DictParamLeaks ==
    /\ pc = "dispatched"
    /\ \E i \in DOMAIN result.statements :
          /\ result.statements[i].k = "AssignStmt"
          /\ result.statements[i].name = "k"
          /\ LET rec == LambdaBody(result.statements[i].expr.body, 1)
             IN  /\ rec.k = "RecordExpr"
                 /\ DictGet(rec.fields, "g").k = "FieldAccessExpr"
                 /\ DictGet(rec.fields, "g").record.name
                       \in DictParamNames("Show")
                 /\ DictGet(rec.fields, "g").record.name
                       # result.statements[i].expr.body.param_name

\* The run of main.py on the program p, each stage over the whole program
\* and the first error ending it: the stage that ended the run, the types
\* of the global names and the values of the statements
PipelineOutcome(p) ==
    LET Ended(stage, types, err, log) ==
            [stage |-> stage, types |-> types, err |-> err, log |-> log]
        AfterEval(c, e) ==
            IF e.err # "" THEN Ended("evaluate", c.genv, e.err, <<>>)
            ELSE Ended("done", c.genv, "", e.log)
        AfterDispatch(c, d) ==
            IF d.err # "" THEN Ended("dispatch", c.genv, d.err, <<>>)
            ELSE AfterEval(c, Interpret(d.t, 0))
        AfterCheck(c) ==
            IF c.err # "" THEN Ended("check", <<>>, c.err, <<>>)
            ELSE AfterDispatch(c, Dispatch(c.t))
        AfterResolve(r) ==
            IF r.err # "" THEN Ended("resolve", <<>>, r.err, <<>>)
            ELSE AfterCheck(Check(r.t, 0))
        AfterDesugar(d) ==
            IF d.err # "" THEN Ended("desugar", <<>>, d.err, <<>>)
            ELSE AfterResolve(Resolve(d.t, 0))
    IN  AfterDesugar(Desugar(p))

\* A type-variable name no program of CheckStmtPool uses
FreshTVar == "b"

\* The type t with the free occurrences of the type variable old renamed
RECURSIVE RenameTVar(_, _, _)
RenameTVar(t, old, new) ==
    IF t.k = "NamedType" THEN (IF t.name = old THEN [t EXCEPT !.name = new] ELSE t)
    ELSE IF t.k = "ForAllType"
         THEN (IF t.param_name = old THEN t
               ELSE [t EXCEPT !.body = RenameTVar(@, old, new)])
    ELSE IF t.k = "ArrowType"
         THEN [t EXCEPT !.left = RenameTVar(@, old, new), !.right = RenameTVar(@, old, new)]
    ELSE IF t.k = "AppType"
         THEN [t EXCEPT !.func = RenameTVar(@, old, new), !.arg = RenameTVar(@, old, new)]
    ELSE IF t.k = "ListType" THEN [t EXCEPT !.elem_type = RenameTVar(@, old, new)]
    ELSE [t EXCEPT !.fields = [i \in DOMAIN @ |->
                                  Entry(@[i].label, RenameTVar(@[i].v, old, new))]]

\* Statement stmt annotates its expression with a ForAll type
AnnotatesForAll(stmt) ==
    /\ stmt.k = "ExprStmt"
    /\ stmt.expr.k = "TypeAnnotatedExpr"
    /\ stmt.expr.type.k = "ForAllType"

\* stmt with the bound variable of its ForAll annotation renamed to new
RenamedAnnotation(stmt, new) ==
    [stmt EXCEPT !.expr.type =
        [@ EXCEPT !.param_name = new, !.body = RenameTVar(@, stmt.expr.type.param_name, new)]]

AnnotatedForAllAccepted ==
    /\ pc = "checked"
    /\ \E i \in DOMAIN parsed.statements : AnnotatesForAll(parsed.statements[i])

\* The stage the run is at, by pc: the stages of main.py in order, then the
\* end of the run
StageOrder == <<"desugar", "desugared", "resolved", "checked", "dispatched", "done">>

StageOf(p) == CHOOSE i \in DOMAIN StageOrder : StageOrder[i] = p

\* The run has ended: exit code 0 at done, exit code 1 (error(e), or the
\* exception re-raised with --debug) at error and runtime_error
Ended == pc \in {"done", "error", "runtime_error"}

\* C23: the stages run in the order desugar, type-resolve, type-check,
\* dispatch, evaluate, each over the whole program; the first error ends the
\* run (exit code 1) and no later stage runs, so a run that ends with a type
\* error has no effect of the evaluator; a run without error ends at done
\* (exit code 0).
C23_PipelineOrderAndAbort ==
    [][/\ ~Ended
       /\ \/ pc' = StageOrder[StageOf(pc) + 1]
          \/ pc' = "error" /\ pc # "dispatched" /\ tree' = tree
          \/ pc' = "runtime_error" /\ pc = "dispatched"
       /\ pc # "dispatched" => interp_temp_name_idx' = interp_temp_name_idx
       /\ pc' = "error" => result'.k = "Error"
       /\ pc' = "done" => result' = Interpret(tree, interp_temp_name_idx).log]_vars

\* A run ended by a type error in the last statement of a program whose
\* other statements run to the end without error
C23_Witness ==
    /\ pc = "error"
    /\ Len(parsed.statements) >= 2
    /\ result.kind = "TypeError"
    /\ PipelineOutcome([parsed EXCEPT !.statements =
                           SubSeq(@, 1, Len(@) - 1)]).stage = "done"

(***************************************************************************)
(* The whole pipeline on the statements of scenario S4, in every order and *)
(* number up to MaxScenarioStmts:                                          *)
(*   trait Show a { show: a -> String; }                                   *)
(*   impl Show for Int { show = int_to_string; }                           *)
(*   greet = \a impl Show. \v: a. "hi " + show @a v;                       *)
(*   greet @Int 1;                                                         *)
(***************************************************************************)
MaxScenarioStmts == 4

ScenarioStmtPool ==
    <<ShowTrait,
      ShowImplInt,
      AssignStmt("greet", TypeLambdaExpr("a",
          LambdaExpr("v", NamedType("a"),
              AddExpr(ValueExpr("str", "hi "), "+",
                      AppExpr(TypeAppExpr(NamedExpr("show"), NamedType("a")),
                              NamedExpr("v")))),
          <<"Show">>)),
      ExprStmt(AppExpr(TypeAppExpr(NamedExpr("greet"), IntType), ValueExpr("int", 1)))>>

InitScenario ==
    /\ pc = "desugar"
    /\ \E n \in 0..MaxScenarioStmts :
          \E choice \in [1..n -> DOMAIN ScenarioStmtPool] :
             parsed = Program([i \in 1..n |-> ScenarioStmtPool[choice[i]]])
    /\ tree = parsed
    /\ result = None
    /\ solver_temp_name_idx = 0
    /\ checker_temp_name_idx = 0
    /\ interp_temp_name_idx = 0

SpecScenario == InitScenario /\ [][NextPipeline]_vars

\* The program of scenario S4
ScenarioS4 == Program(ScenarioStmtPool)

\* C24: the program of scenario S4 passes desugaring, resolution, type
\* checking and dispatch without error, and its last statement evaluates to
\* the String value "hi 1".
C24_ScenarioS4 ==
    parsed = ScenarioS4 =>
        /\ pc \notin {"error", "runtime_error"}
        /\ pc = "done" => result[Len(result)] = ValueExpr("str", "hi 1")

\* The run of scenario S4 has ended
ScenarioS4Ended == parsed = ScenarioS4 /\ Ended

(***************************************************************************)
(* Type equality on its own: the == of the type classes (parser.py         *)
(* __eq__) on every pair of the types of EqTypePool.                        *)
(***************************************************************************)
EqTypePool ==
    <<IntType,
      BoolType,
      NamedType("a"),
      ArrowType(IntType, BoolType),
      ArrowType(BoolType, IntType),
      ListType(IntType),
      ListType(BoolType),
      RecordType(<<Entry("f", IntType), Entry("g", BoolType)>>),
      RecordType(<<Entry("g", BoolType), Entry("f", IntType)>>),
      RecordType(<<Entry("f", IntType)>>),
      RecordType(<<Entry("f", BoolType), Entry("g", BoolType)>>),
      ForAllType("a", ArrowType(NamedType("a"), NamedType("a")), <<>>),
      ForAllType("b", ArrowType(NamedType("b"), NamedType("b")), <<>>),
      ForAllType("a", ArrowType(NamedType("a"), NamedType("a")), <<"Show">>),
      ForAllType("a", ArrowType(NamedType("a"), NamedType("a")), <<"Show", "Eq">>),
      ForAllType("a", ArrowType(NamedType("a"), IntType), <<>>)>>

InitTypeEq ==
    /\ pc = "compare"
    /\ \E i \in DOMAIN EqTypePool, j \in DOMAIN EqTypePool :
          parsed = PyList(<<EqTypePool[i], EqTypePool[j]>>)
    /\ tree = parsed
    /\ result = None
    /\ solver_temp_name_idx = 0
    /\ checker_temp_name_idx = 0
    /\ interp_temp_name_idx = 0

\* left == right on two types
CompareTypes ==
    /\ pc = "compare"
    /\ pc' = "compared"
    /\ result' = ValueExpr("bool", TypeEq(parsed.items[1], parsed.items[2]))
    /\ UNCHANGED <<parsed, tree, solver_temp_name_idx, checker_temp_name_idx,
                   interp_temp_name_idx>>

SpecTypeEq == InitTypeEq /\ [][CompareTypes]_vars

\* Structural equality of two types: the same variant with equal
\* components; Records by their label sets and the types per label, ForAlls
\* by bound variable, trait bounds and body
RECURSIVE StructurallyEqual(_, _)
StructurallyEqual(a, b) ==
    /\ a.k = b.k
    /\ CASE a.k = "NamedType" -> a.name = b.name
         [] a.k = "ArrowType" -> /\ StructurallyEqual(a.left, b.left)
                                 /\ StructurallyEqual(a.right, b.right)
         [] a.k = "AppType" -> /\ StructurallyEqual(a.func, b.func)
                               /\ StructurallyEqual(a.arg, b.arg)
         [] a.k = "ListType" -> StructurallyEqual(a.elem_type, b.elem_type)
         [] a.k = "RecordType" ->
               /\ {a.fields[i].label : i \in DOMAIN a.fields}
                     = {b.fields[i].label : i \in DOMAIN b.fields}
               /\ \A i \in DOMAIN a.fields : \A j \in DOMAIN b.fields :
                     a.fields[i].label = b.fields[j].label
                         => StructurallyEqual(a.fields[i].v, b.fields[j].v)
         [] a.k = "ForAllType" -> /\ a.param_name = b.param_name
                                  /\ a.trait_bounds = b.trait_bounds
                                  /\ StructurallyEqual(a.body, b.body)

\* C25: two types are equal exactly when they are the same variant with
\* equal components; Records whatever the declaration order; ForAlls iff
\* same bound variable name, same trait bounds and equal bodies.
C25_TypeEqualityStructural ==
    pc = "compared" =>
        result.value.v = StructurallyEqual(parsed.items[1], parsed.items[2])

\* The same, the trait bounds of ForAll types left aside
RECURSIVE WithoutBounds(_)
WithoutBounds(t) ==
    IF t.k = "ForAllType" THEN [t EXCEPT !.trait_bounds = <<>>, !.body = WithoutBounds(@)]
    ELSE IF t.k = "ArrowType"
         THEN [t EXCEPT !.left = WithoutBounds(@), !.right = WithoutBounds(@)]
    ELSE t

EqualityUpToBounds ==
    pc = "compared" =>
        result.value.v = StructurallyEqual(WithoutBounds(parsed.items[1]),
                                           WithoutBounds(parsed.items[2]))

\* Two Records with the same fields in different order compared equal, and
\* two alpha-equivalent ForAlls compared unequal
RecordOrderIgnored ==
    /\ pc = "compared"
    /\ parsed.items[1].k = "RecordType" /\ parsed.items[2].k = "RecordType"
    /\ parsed.items[1] # parsed.items[2]
    /\ result.value.v

AlphaEquivalentUnequal ==
    /\ pc = "compared"
    /\ parsed.items[1].k = "ForAllType" /\ parsed.items[2].k = "ForAllType"
    /\ parsed.items[1].param_name # parsed.items[2].param_name
    /\ ~result.value.v

\* C26: the ForAll type the checker produces for an inner TypeLambda that
\* rebinds a does not bind the a in the type of a variable x of the outer
\* scope: with k = \a. \x: a. \a. x the type of k @Int 1 @Bool is Int.
C26_TypeLambdaNoCapture ==
    pc = "checked" /\ DictHas(result, "r") => DictGet(result, "r") = IntType

\* k @Int 1 @Bool has been given a type
NestedTypeLambdaChecked ==
    /\ pc = "checked"
    /\ DictHas(result, "k")
    /\ DictHas(result, "r")

\* The names the statements before the i-th assign at top level
AssignedBefore(stmts, i) ==
    {stmts[j].name : j \in {n \in 1..(i - 1) : stmts[n].k = "AssignStmt"}}

ParameterOutOfScope ==
    /\ pc = "error"
    /\ result.msg = "Unbound variable"
    /\ Len(parsed.statements) = 2
    /\ parsed.statements[1] = AssignStmt("f", LambdaExpr("y", IntType, NamedExpr("y")))
    /\ parsed.statements[2] = ExprStmt(NamedExpr("y"))

\* Every name written in the type t, as a binder or as a NamedType
RECURSIVE TypeNames(_)
TypeNames(t) ==
    IF t.k = "NamedType" THEN {t.name}
    ELSE IF t.k = "ForAllType" THEN {t.param_name} \cup TypeNames(t.body)
    ELSE IF t.k = "ArrowType" THEN TypeNames(t.left) \cup TypeNames(t.right)
    ELSE IF t.k = "AppType" THEN TypeNames(t.func) \cup TypeNames(t.arg)
    ELSE IF t.k = "ListType" THEN TypeNames(t.elem_type)
    ELSE UNION {TypeNames(t.fields[i].v) : i \in DOMAIN t.fields}

\* The names base$N a pass generates when its counter goes from lo to hi
GeneratedNames(lo, hi) == {TempName(base, n) : base \in TVarNames, n \in (lo + 1)..hi}

\* C28: every name base$N generated for a renamed binder during a
\* substitution is different from every name generated earlier for the same
\* base in any pass, and from every name that occurs in the type
\* substituted into or in the substituted argument.
C28_GeneratedNamesFresh ==
    [][LET generated == GeneratedNames(solver_temp_name_idx, solver_temp_name_idx')
                        \cup GeneratedNames(checker_temp_name_idx, checker_temp_name_idx')
       IN  /\ generated \cap GeneratedNames(0, solver_temp_name_idx) = {}
           /\ generated \cap GeneratedNames(0, checker_temp_name_idx) = {}
           /\ generated \cap (TypeNames(tree.body) \cup TypeNames(tree.new)) = {}]_vars

\* Within one pass: a generated name differs from the names the same
\* counter generated before
FreshWithinPass ==
    [][/\ GeneratedNames(solver_temp_name_idx, solver_temp_name_idx')
             \cap GeneratedNames(0, solver_temp_name_idx) = {}
       /\ GeneratedNames(checker_temp_name_idx, checker_temp_name_idx')
             \cap GeneratedNames(0, checker_temp_name_idx) = {}
       /\ solver_temp_name_idx' >= solver_temp_name_idx
       /\ checker_temp_name_idx' >= checker_temp_name_idx]_vars

\* The checker's substitution has renamed a binder to a name the type
\* already held, the resolver having generated that name earlier
NameGeneratedTwice ==
    /\ pc = "checker_subst_done"
    /\ solver_temp_name_idx = 1
    /\ checker_temp_name_idx = 1
    /\ TempName("a", 1) \in TypeNames(tree.body)
    /\ result.k = "ForAllType"
    /\ result.param_name = TempName("a", 1)
    /\ tree.body.param_name = "a"

\* The dispatched TypeLambda node with bounds B1..Bm: the i-th lambda
\* wrapped around its body, counted from the outermost, binds the
\* dictionary parameter made for Bi.  An application f @T d1 .. dm
\* (visit_TypeAppExpr appends the instance of Bi as the i-th argument) is
\* evaluated by substituting d1 for the outermost parameter, d2 for the
\* next (interpreter.py visit_AppExpr), so this is when di reaches the
\* parameter registered for (Bi, a).
ParamsLineUp(node) ==
    LET m == Len(node.trait_bounds)
        params == LambdaParams(node.body, m)
    IN  /\ Len(params) = m
        /\ \A i \in 1..m : params[i] \in DictParamNames(node.trait_bounds[i])

\* C29: for a TypeLambda with bounds [B1..Bm], m >= 2 included, the lambdas
\* dispatch wraps around its body and the dictionary arguments dispatch
\* appends at a type application line up: the dictionary supplied for Bi is
\* the one substituted for the dictionary parameter of Bi, for every i.
C29_DictParamsMatchArgs ==
    pc = "dispatched" =>
        \A i \in DOMAIN result.statements :
            /\ result.statements[i].k = "AssignStmt"
            /\ result.statements[i].expr.k = "TypeLambdaExpr"
            /\ Len(result.statements[i].expr.trait_bounds) > 0
            => ParamsLineUp(result.statements[i].expr)

\* The same for the TypeLambdas with one bound
SingleBoundLinesUp ==
    pc = "dispatched" =>
        \A i \in DOMAIN result.statements :
            /\ result.statements[i].k = "AssignStmt"
            /\ result.statements[i].expr.k = "TypeLambdaExpr"
            /\ Len(result.statements[i].expr.trait_bounds) = 1
            => ParamsLineUp(result.statements[i].expr)

\* m = \a impl Show+Eq. .. and m @Int have been dispatched: the
\* application supplies the instance of Show first, the outermost
\* parameter is the one of Eq
DictionariesCrossed ==
    /\ pc = "dispatched"
    /\ Len(result.statements) = 3
    /\ result.statements[1].k = "InstanceEnvStmt" /\ result.statements[1].name = "Show"
    /\ result.statements[2].k = "InstanceEnvStmt" /\ result.statements[2].name = "Eq"
    /\ result.statements[3].k = "AssignStmt" /\ result.statements[3].name = "m"
    /\ LambdaParams(result.statements[3].expr.body, 2) = <<"__dictp_Eq_2", "__dictp_Show_1">>

\* Every statement of items is a direct element: none is a list
FlatStatements(items) == \A i \in DOMAIN items : items[i].k # "list"

\* The statements of items that the pass did not produce from a Trait,
\* Struct or Impl, in order
RECURSIVE OtherStatements(_)
OtherStatements(items) ==
    IF items = <<>> THEN <<>>
    ELSE IF Head(items).k \in {"list", "TraitStmt", "StructStmt", "ImplStmt"}
         THEN OtherStatements(Tail(items))
    ELSE <<Head(items)>> \o OtherStatements(Tail(items))

\* C30: the desugar pass returns a flat statement sequence: what a Trait,
\* Struct or Impl desugars to stands at the statement's position, the other
\* statements keep their relative order, and every emitted statement is a
\* direct element of the program's statement list.
C30_DesugarFlat ==
    pc = "desugared" =>
        /\ FlatStatements(tree.statements)
        /\ OtherStatements(tree.statements) = OtherStatements(parsed.statements)

\* The part of C30 on positions and order: one element per statement of the
\* program, the emitted statements of a Trait, Struct or Impl at its
\* position, the other statements as they were
PositionsKept ==
    pc = "desugared" =>
        /\ Len(tree.statements) = Len(parsed.statements)
        /\ \A i \in DOMAIN parsed.statements :
              IF parsed.statements[i].k \in {"TraitStmt", "StructStmt", "ImplStmt"}
              THEN tree.statements[i].k = "list"
              ELSE tree.statements[i] = parsed.statements[i]

\* A desugared program with a Trait between two other statements
NestedEmission ==
    /\ pc = "desugared"
    /\ Len(parsed.statements) = 3
    /\ parsed.statements[2].k = "TraitStmt"
    /\ tree.statements[2].k = "list"
    /\ Len(tree.statements[2].items) >= 2

====
